---------------------------- MODULE Spec2Model ----------------------------
(***************************************************************************)
(* WebE IDE: the debugger's step-control bridge (ui/debugger.py), the      *)
(* terminal pane (ui/terminal.py), the project manager                     *)
(* (ui/projectmanager.py), the snippet manager (ui/snippets.py), the git   *)
(* runner (ui/gitintegration.py), the main window (ui/mainwindow.py) and   *)
(* the editor's folding (editor/editor.py).                                *)
(*                                                                         *)
(* Python strings that the code only stores, compares or concatenates are  *)
(* TLA+ strings.  Texts whose characters the code inspects (the argument   *)
(* of CustomDebugger.write) are sequences of one-character strings.        *)
(* An optional value is a sequence: None is <<>>, a present value v <<v>>. *)
(***************************************************************************)
EXTENDS Integers, Sequences, FiniteSets, TLC

VARIABLES
    \* ---- ui/debugger.py --------------------------------------------------
    dbg_exc,            \* the exception that left DebuggerDialog(), or None
    debugger_thread,    \* the DebuggerThread: "None" before one is constructed
    thread_file_path,   \* DebuggerThread.file_path
    should_continue,    \* DebuggerThread.should_continue
    should_step,        \* DebuggerThread.should_step
    should_step_in,     \* DebuggerThread.should_step_in
    should_step_out,    \* DebuggerThread.should_step_out
    pc,                 \* where the thread's run, or a readline call, stands
    cmd,                \* the command the last readline call returned ("" before)
    rl_entry,           \* the four flags as they were when readline was entered
    output_buffer,      \* CustomDebugger.output_buffer
    out_queue,          \* the texts pdb has still to write for the current pause
    signals,            \* every signal emitted so far, in emission order
    paused_at,          \* where pdb is paused: the event, the file and the line
    run_exc,            \* the exception on its way to run's handler, or None
    clicks,             \* history: how often each of the four setters was called
    commands,           \* history: how often readline returned each command
    recording,          \* whether this history is being kept
    written,            \* history: the texts passed to CustomDebugger.write, in call order
    \* ---- ui/terminal.py --------------------------------------------------
    terminal,           \* "unbuilt" before Terminal() ran, then "built"
    term_process,       \* Terminal.process: "None" | "QProcess"
    qprocess_state,     \* state() of the QProcess start_shell created
    shell_stdin,        \* what has been written to the shell's standard input
    shell_unread,       \* chunks of shell output not read from the QProcess yet
    term_output,        \* Terminal.output_area: the appended paragraphs
    input_line,         \* Terminal.input_line's text
    input_enabled,      \* Terminal.input_line's enabled state
    \* ---- ui/projectmanager.py --------------------------------------------
    current_project,    \* ProjectManager.current_project: None or the record
    disk,               \* the project files: path -> None or the file's content
    dirs,               \* the directories that exist
    proj_exc,           \* the exception the last operation raised, or None
    proj_propagated,    \* whether that exception left the operation uncaught
    proj_message,       \* the message box the last operation showed, or None
    proj_result,        \* the value the last operation returned, or None
    proj_call,          \* the last operation when it was create_project (with what
                        \* its dialog held) or an open_project that loaded a file
                        \* (with that file); None otherwise
    \* ---- ui/snippets.py --------------------------------------------------
    snippets,           \* SnippetManager.snippets
    snippets_file,      \* snippets.json: None or the file's content
    snip_message,       \* the message box the last SnippetDialog handler showed
    snip_ops,           \* how many SnippetDialog handlers have run
    snip_call,          \* the last SnippetManager method called: None or <<method, index>>
    \* ---- ui/gitintegration.py --------------------------------------------
    current_repo,       \* GitManager.current_repo: None or the path
    git_call,           \* the last run_git_command: its repo_path and what the
                        \* subprocess did; None before the first call
    git_result,         \* how that call ended: the pair returned, or raised
    \* ---- ui/mainwindow.py ------------------------------------------------
    tab_widget,         \* MainWindow.tab_widget: the tabs' editors, each with its
                        \* text and the file it was opened from or last saved as
    current_index,      \* tab_widget.currentIndex() + 1; 0 when there is no tab
    current_file,       \* MainWindow.current_file: None or a path
    file_system,        \* the files a user edits: path -> None or the content
    mw_call,            \* the last MainWindow handler that ran ("" before any)
    mw_wrote,           \* what that handler wrote: None or <<path, content>>
    mw_started,         \* what that handler started: None or <<what, argument>>
    mw_box,             \* the handler that stands in save_file's message box
                        \* (a modal QMessageBox, which runs an event loop of
                        \* its own), None when none does
    \* ---- editor/editor.py ------------------------------------------------
    document,           \* a CodeEditor's document: the text of each block (line)
    visible,            \* QTextBlock.isVisible() of each block
    user_state,         \* QTextBlock.userState() of each block (-1 until set)
    fold_clicks,        \* history: the valid blocks toggle_fold was called on, in order
    \* ---- ui/mainwindow.py: ReplaceDialog ----------------------------------
    editor_text,        \* toPlainText() of the editor the dialog works on
    selection,          \* that editor's selection: None or <<first, last>>
    rp_call,            \* the last ReplaceDialog handler: None or what it was
                        \* given and the text it found in the editor
    rp_ops              \* how many ReplaceDialog handlers have run

dbg_vars == <<dbg_exc, debugger_thread, thread_file_path, should_continue, should_step,
              should_step_in, should_step_out, pc, cmd, rl_entry, output_buffer,
              out_queue, signals, paused_at, run_exc, clicks, commands, recording,
              written>>

term_vars == <<terminal, term_process, qprocess_state, shell_stdin, shell_unread,
               term_output, input_line, input_enabled>>

proj_vars == <<current_project, disk, dirs, proj_exc, proj_propagated, proj_message,
              proj_result, proj_call>>

snip_vars == <<snippets, snippets_file, snip_message, snip_ops, snip_call>>

git_vars == <<current_repo, git_call, git_result>>

mw_vars == <<tab_widget, current_index, current_file, file_system, mw_call, mw_wrote,
             mw_started, mw_box>>

ed_vars == <<document, visible, user_state, fold_clicks>>

rp_vars == <<editor_text, selection, rp_call, rp_ops>>

vars == <<dbg_vars, term_vars, proj_vars, snip_vars, git_vars, mw_vars, ed_vars, rp_vars>>

\* What the debugger, the terminal and the project manager leave alone.
not_dbg == <<term_vars, proj_vars, snip_vars, git_vars, mw_vars, ed_vars, rp_vars>>
not_term == <<dbg_vars, proj_vars, snip_vars, git_vars, mw_vars, ed_vars, rp_vars>>
not_proj == <<dbg_vars, term_vars, snip_vars, git_vars, mw_vars, ed_vars, rp_vars>>
not_snip == <<dbg_vars, term_vars, proj_vars, git_vars, mw_vars, ed_vars, rp_vars>>
not_git == <<dbg_vars, term_vars, proj_vars, snip_vars, mw_vars, ed_vars, rp_vars>>
not_mw == <<dbg_vars, term_vars, proj_vars, snip_vars, git_vars, ed_vars, rp_vars>>
not_ed == <<dbg_vars, term_vars, proj_vars, snip_vars, git_vars, mw_vars, rp_vars>>
not_rp == <<dbg_vars, term_vars, proj_vars, snip_vars, git_vars, mw_vars, ed_vars>>

None == <<>>
Some(v) == <<v>>

\* How `with open(path, 'w') as f:` followed by a write to f can end: both
\* go through; open raises (the file is left as it was); open has created or
\* emptied the file and the write (or the flush on close) raises.
WriteOutcomes == {"ok", "open_fails", "write_fails"}

\* The file afterwards: None when there is none, else its content.  A write
\* that fails leaves in the file what it had put there: outcome.left, a
\* prefix of the content.
file_after(old, content, outcome) ==
    CASE outcome.kind = "ok" -> Some(content)
      [] outcome.kind = "write_fails" -> Some(outcome.left)
      [] OTHER -> old

(***************************************************************************)
(* Bounds.                                                                 *)
(***************************************************************************)
\* CustomDebugger.write applied to arbitrary texts: longest text, most calls.
MaxTextLen == 2
MaxWrites == 2
\* Terminal: commands executed, shell output chunks waiting to be read.
MaxCommands == 3
MaxUnread == 1
\* SnippetDialog handlers run.
MaxSnippetOps == 2
\* Setter calls counted in the history of the debugger's intents.
MaxClicks == 3
\* MainWindow: tabs open at the same time.
MaxTabs == 2
\* CodeEditor: blocks of the document, toggle_fold calls.
MaxBlocks == 3
MaxFoldClicks == 3
\* ReplaceDialog: characters of the editor's text at the start, handlers run.
MaxContentLen == 2
MaxReplaceOps == 2

(***************************************************************************)
(* Texts.                                                                  *)
(***************************************************************************)
NL == "\n"
Char == {"a", NL}
Texts == UNION {[1..n -> Char] : n \in 0..MaxTextLen}

RECURSIVE join(_)
\* ''.join(parts)
join(parts) == IF parts = <<>> THEN <<>> ELSE Head(parts) \o join(Tail(parts))

\* text.endswith('\n')
endswith_nl(text) == Len(text) > 0 /\ text[Len(text)] = NL

\* The texts pdb writes are sequences of pieces: a piece is the newline or a
\* run of characters that holds none.
PromptText == <<"(Pdb) ">>

(***************************************************************************)
(* What a DebuggerThread is given to debug.  DebuggerThread.run hands        *)
(* self.file_path to Pdb.run (line 50), which takes it as the statement to   *)
(* execute: bdb compiles the text of the path itself, as "<string>", and     *)
(* runs it in __main__.__dict__.                                             *)
(***************************************************************************)
\* The path of a file as a file dialog gives it: not a Python statement.
AbsolutePath == "/a.py"
\* A relative path: the expression `script.py`, an attribute of the name script.
RelativePath == "script.py"

\* The arguments of DebuggerThread(file_path) constructed directly.
\* MainWindow.debug_file would hand over current_file, which file dialogs
\* and the file browser set to absolute paths, but it never gets as far as
\* a DebuggerThread: DebuggerDialog's constructor raises (debug_file_start).
ThreadFilePaths == {AbsolutePath, RelativePath}

\* compile(cmd, "<string>", "exec") succeeds
compiles(text) == text = RelativePath

\* str(e) of the exceptions that reach DebuggerThread.run's handler
SyntaxErrorText == "invalid syntax (<string>, line 1)"
FlushErrorText == "'CustomDebugger' object has no attribute 'flush'"

(***************************************************************************)
(* pdb's pause (CPython 3.11's pdb.py and bdb.py): a line event of the     *)
(* text, Pdb.user_line, which CustomDebugger overrides.                    *)
(***************************************************************************)
String == "<string>"

L(k) == [kind |-> "line", file |-> String, line |-> k]

NoStop == [kind |-> "none", file |-> "", line |-> 0]

\* {n} in an f-string, str(n) in a print: the decimal text of the integers
\* that occur
format_int(n) == CASE n = 1 -> "1" [] n = 2 -> "2" [] OTHER -> "0"

\* Pdb.print_stack_entry's text: '> ' and bdb's format_stack_entry;
\* linecache has no source line for "<string>".
stack_entry(st) == <<"> ", st.file, "(", format_int(st.line), ")", "<module>", "()">>

\* The write calls of a pause, in order: pdb's message goes through print(),
\* which writes the message and then "\n"; cmdloop writes the prompt.
pause_texts(st) == << stack_entry(st), <<NL>>, PromptText >>

(***************************************************************************)
(* ui/debugger.py: signals and CustomDebugger.write                        *)
(***************************************************************************)
\* signal.emit(arg...)
emit(sigs, sig, arg) == Append(sigs, [sig |-> sig, arg |-> arg])

\* A plausible slip: forward whenever the text holds a newline anywhere.
write_on_any_newline(st, text) ==
    LET buf == Append(st.buf, text) IN
    IF \E i \in 1..Len(text) : text[i] = NL
    THEN [buf |-> <<>>, sigs |-> emit(st.sigs, "output_signal", <<join(buf)>>)]
    ELSE [buf |-> buf, sigs |-> st.sigs]

\* A plausible slip: forward the text of this call alone, dropping what the
\* earlier calls left in the buffer.
write_emits_text_only(st, text) ==
    LET buf == Append(st.buf, text) IN
    IF endswith_nl(text)
    THEN [buf |-> <<>>, sigs |-> emit(st.sigs, "output_signal", <<text>>)]
    ELSE [buf |-> buf, sigs |-> st.sigs]

\* CustomDebugger.write(text) on st = [buf: output_buffer, sigs: signals]
write(st, text) ==
    LET buf == Append(st.buf, text) IN
    IF endswith_nl(text)
    THEN [buf |-> <<>>, sigs |-> emit(st.sigs, "output_signal", <<join(buf)>>)]
    ELSE [buf |-> buf, sigs |-> st.sigs]

(***************************************************************************)
(* ui/debugger.py: DebuggerThread and CustomDebugger.  No DebuggerDialog   *)
(* can be constructed (its init_ui names QWidget, which the module does    *)
(* not import), so the two classes are exercised as a caller that           *)
(* constructs them would: DebuggerThread(file_path), its four setters, its *)
(* run, and CustomDebugger(thread).readline().                             *)
(***************************************************************************)
flags == <<should_continue, should_step, should_step_in, should_step_out>>

RLStates == {"test_continue", "clear_continue", "test_step", "clear_step",
             "test_step_in", "clear_step_in", "test_step_out", "clear_step_out",
             "msleep"}

\* The history of setter calls and returned commands, kept while
\* `recording`, and the history of write calls.
hist_vars == <<clicks, commands, recording, written>>

\* One more call of setter i, or one more return of command i, on record.
count(history, i) == IF recording THEN [history EXCEPT ![i] = @ + 1] ELSE history

\* The setter calls on record so far.
total_clicks == clicks[1] + clicks[2] + clicks[3] + clicks[4]

\* Before any DebuggerThread exists.
DebuggerInit ==
    /\ dbg_exc = None
    /\ debugger_thread = "None"
    /\ thread_file_path = None
    /\ should_continue = FALSE
    /\ should_step = FALSE
    /\ should_step_in = FALSE
    /\ should_step_out = FALSE
    /\ pc = "idle"
    /\ cmd = ""
    /\ rl_entry = <<FALSE, FALSE, FALSE, FALSE>>
    /\ output_buffer = <<>>
    /\ out_queue = <<>>
    /\ signals = <<>>
    /\ paused_at = NoStop
    /\ run_exc = None
    /\ clicks = <<0, 0, 0, 0>>
    /\ commands = <<0, 0, 0, 0>>
    /\ written = <<>>

\* What the worker's steps leave alone.
run_frame == <<dbg_exc, debugger_thread, thread_file_path, cmd, rl_entry>>

\* DebuggerThread.__init__(file_path): the path is kept, the four intents
\* are False.
DebuggerThread__init__ ==
    /\ debugger_thread = "None"
    /\ \E path \in ThreadFilePaths : thread_file_path' = Some(path)
    /\ debugger_thread' = "DebuggerThread"
    /\ should_continue' = FALSE
    /\ should_step' = FALSE
    /\ should_step_in' = FALSE
    /\ should_step_out' = FALSE
    /\ pc' = "new"
    /\ UNCHANGED <<dbg_exc, cmd, rl_entry, output_buffer, out_queue, signals, paused_at,
                   run_exc>>
    /\ UNCHANGED hist_vars
    /\ UNCHANGED not_dbg

\* The thread is started: DebuggerThread.run is entered.
start ==
    /\ pc = "new"
    /\ pc' = "run"
    /\ UNCHANGED <<run_frame, flags, output_buffer, out_queue, signals, paused_at, run_exc>>
    /\ UNCHANGED hist_vars
    /\ UNCHANGED not_dbg

\* A plausible slip: run() starts by resetting the four intents.
run_begin_resets_flags ==
    /\ pc = "run"
    /\ compiles(thread_file_path[1])
    /\ output_buffer' = <<>>
    /\ paused_at' = L(1)
    /\ pc' = "interaction"
    /\ should_continue' = FALSE
    /\ should_step' = FALSE
    /\ should_step_in' = FALSE
    /\ should_step_out' = FALSE
    /\ UNCHANGED <<run_frame, out_queue, signals, run_exc>>
    /\ UNCHANGED hist_vars
    /\ UNCHANGED not_dbg

\* DebuggerThread.run up to the first line event of the text: the debugger
\* is created (empty output_buffer), no breakpoint is ever registered, the
\* text compiles and bdb stops before its first line.
run_begin ==
    /\ pc = "run"
    /\ compiles(thread_file_path[1])
    /\ output_buffer' = <<>>
    /\ paused_at' = L(1)
    /\ pc' = "interaction"
    /\ UNCHANGED <<run_frame, flags, out_queue, signals, run_exc>>
    /\ UNCHANGED hist_vars
    /\ UNCHANGED not_dbg

\* DebuggerThread.run when the text does not compile: SyntaxError leaves
\* debugger.run at once.
run_raises ==
    /\ pc = "run"
    /\ ~compiles(thread_file_path[1])
    /\ output_buffer' = <<>>
    /\ run_exc' = Some(SyntaxErrorText)
    /\ pc' = "except"
    /\ UNCHANGED <<run_frame, flags, out_queue, signals, paused_at>>
    /\ UNCHANGED hist_vars
    /\ UNCHANGED not_dbg

\* Pdb.interaction at the pause (CustomDebugger.user_line's first statement,
\* super().user_line(frame), line 120): pdb has the texts of the pause to
\* write.
interaction ==
    /\ pc = "interaction"
    /\ out_queue' = pause_texts(paused_at)
    /\ pc' = "write"
    /\ UNCHANGED <<run_frame, flags, output_buffer, signals, paused_at, run_exc>>
    /\ UNCHANGED hist_vars
    /\ UNCHANGED not_dbg

\* One write call of the pause: stdout is the CustomDebugger itself.
interaction_write ==
    /\ pc = "write"
    /\ out_queue # <<>>
    /\ LET st == write([buf |-> output_buffer, sigs |-> signals], Head(out_queue)) IN
        /\ output_buffer' = st.buf
        /\ signals' = st.sigs
    /\ out_queue' = Tail(out_queue)
    /\ written' = Append(written, Head(out_queue))
    /\ UNCHANGED <<run_frame, flags, pc, paused_at, run_exc>>
    /\ UNCHANGED <<clicks, commands, recording>>
    /\ UNCHANGED not_dbg

\* cmdloop, the prompt written: self.stdout.flush() comes before
\* self.stdin.readline().  stdout is the CustomDebugger (line 89), which
\* defines write but no flush, so cmd.py raises AttributeError; it leaves
\* cmdloop, interaction, user_line at line 120 and debugger.run, and
\* reaches run's handler.  Lines 122-142 of user_line do not run.
cmdloop_flush_raises ==
    /\ pc = "write"
    /\ out_queue = <<>>
    /\ run_exc' = Some(FlushErrorText)
    /\ pc' = "except"
    /\ UNCHANGED <<run_frame, flags, output_buffer, out_queue, signals, paused_at>>
    /\ UNCHANGED hist_vars
    /\ UNCHANGED not_dbg

rl_frame == <<dbg_exc, debugger_thread, thread_file_path, rl_entry, output_buffer, out_queue,
              signals, paused_at, run_exc>>

\* CustomDebugger(debugger_thread).readline() is called while the thread is
\* not inside run.
readline_call ==
    /\ pc \in {"new", "finished", "returned", "raised"}
    /\ rl_entry' = flags
    /\ pc' = "test_continue"
    /\ UNCHANGED <<dbg_exc, debugger_thread, thread_file_path, flags, cmd, output_buffer, out_queue,
                   signals, paused_at, run_exc>>
    /\ UNCHANGED hist_vars
    /\ UNCHANGED not_dbg

\* readline: if self.debugger_thread.should_continue:
readline_test_continue ==
    /\ pc = "test_continue"
    /\ pc' = IF should_continue THEN "clear_continue" ELSE "test_step"
    /\ UNCHANGED <<flags, cmd, rl_frame>>
    /\ UNCHANGED hist_vars
    /\ UNCHANGED not_dbg

\* A plausible slip: returning a command resets every intent, not only its own.
readline_clear_continue_clears_all ==
    /\ pc = "clear_continue"
    /\ should_continue' = FALSE
    /\ cmd' = "c"
    /\ pc' = "returned"
    /\ should_step' = FALSE
    /\ should_step_in' = FALSE
    /\ should_step_out' = FALSE
    /\ UNCHANGED rl_frame
    /\ commands' = count(commands, 1)
    /\ UNCHANGED <<clicks, recording, written>>
    /\ UNCHANGED not_dbg

\* readline: should_continue = False; return 'c'
readline_clear_continue ==
    /\ pc = "clear_continue"
    /\ should_continue' = FALSE
    /\ cmd' = "c"
    /\ pc' = "returned"
    /\ UNCHANGED <<should_step, should_step_in, should_step_out, rl_frame>>
    /\ commands' = count(commands, 1)
    /\ UNCHANGED <<clicks, recording, written>>
    /\ UNCHANGED not_dbg

\* readline: elif self.debugger_thread.should_step:
readline_test_step ==
    /\ pc = "test_step"
    /\ pc' = IF should_step THEN "clear_step" ELSE "test_step_in"
    /\ UNCHANGED <<flags, cmd, rl_frame>>
    /\ UNCHANGED hist_vars
    /\ UNCHANGED not_dbg

\* A plausible slip: 'n' is returned without resetting should_step.
readline_clear_step_keeps_flag ==
    /\ pc = "clear_step"
    /\ cmd' = "n"
    /\ pc' = "returned"
    /\ UNCHANGED <<flags, rl_frame>>
    /\ commands' = count(commands, 2)
    /\ UNCHANGED <<clicks, recording, written>>
    /\ UNCHANGED not_dbg

\* readline: should_step = False; return 'n'
readline_clear_step ==
    /\ pc = "clear_step"
    /\ should_step' = FALSE
    /\ cmd' = "n"
    /\ pc' = "returned"
    /\ UNCHANGED <<should_continue, should_step_in, should_step_out, rl_frame>>
    /\ commands' = count(commands, 2)
    /\ UNCHANGED <<clicks, recording, written>>
    /\ UNCHANGED not_dbg

\* readline: elif self.debugger_thread.should_step_in:
readline_test_step_in ==
    /\ pc = "test_step_in"
    /\ pc' = IF should_step_in THEN "clear_step_in" ELSE "test_step_out"
    /\ UNCHANGED <<flags, cmd, rl_frame>>
    /\ UNCHANGED hist_vars
    /\ UNCHANGED not_dbg

\* A plausible copy-and-paste slip: the step-in branch resets should_step.
readline_clear_step_in_wrong_flag ==
    /\ pc = "clear_step_in"
    /\ should_step' = FALSE
    /\ cmd' = "s"
    /\ pc' = "returned"
    /\ UNCHANGED <<should_continue, should_step_in, should_step_out, rl_frame>>
    /\ commands' = count(commands, 3)
    /\ UNCHANGED <<clicks, recording, written>>
    /\ UNCHANGED not_dbg

\* readline: should_step_in = False; return 's'
readline_clear_step_in ==
    /\ pc = "clear_step_in"
    /\ should_step_in' = FALSE
    /\ cmd' = "s"
    /\ pc' = "returned"
    /\ UNCHANGED <<should_continue, should_step, should_step_out, rl_frame>>
    /\ commands' = count(commands, 3)
    /\ UNCHANGED <<clicks, recording, written>>
    /\ UNCHANGED not_dbg

\* A plausible slip: the last branch written as a plain else.
readline_test_step_out_as_else ==
    /\ pc = "test_step_out"
    /\ pc' = "clear_step_out"
    /\ UNCHANGED <<flags, cmd, rl_frame>>
    /\ UNCHANGED hist_vars
    /\ UNCHANGED not_dbg

\* readline: elif self.debugger_thread.should_step_out:
readline_test_step_out ==
    /\ pc = "test_step_out"
    /\ pc' = IF should_step_out THEN "clear_step_out" ELSE "msleep"
    /\ UNCHANGED <<flags, cmd, rl_frame>>
    /\ UNCHANGED hist_vars
    /\ UNCHANGED not_dbg

\* readline: should_step_out = False; return 'r'
readline_clear_step_out ==
    /\ pc = "clear_step_out"
    /\ should_step_out' = FALSE
    /\ cmd' = "r"
    /\ pc' = "returned"
    /\ UNCHANGED <<should_continue, should_step, should_step_in, rl_frame>>
    /\ commands' = count(commands, 4)
    /\ UNCHANGED <<clicks, recording, written>>
    /\ UNCHANGED not_dbg

\* readline: self.msleep(100).  self is the CustomDebugger, a pdb.Pdb, which
\* has no msleep (it is a QThread method): the call raises AttributeError,
\* which leaves readline.
readline_msleep ==
    /\ pc = "msleep"
    /\ pc' = "raised"
    /\ UNCHANGED <<flags, cmd, rl_frame>>
    /\ UNCHANGED hist_vars
    /\ UNCHANGED not_dbg

emit_frame == <<dbg_exc, debugger_thread, thread_file_path, flags, cmd, rl_entry, output_buffer,
                out_queue, paused_at, run_exc>>

\* f"Error: {str(e)}"
ErrorText(e) == <<"Error: ", e>>

\* A plausible slip: finished_signal emitted at the end of the try block
\* instead of in a finally clause, so a failed run ends without it.
run_except_without_finally ==
    /\ pc = "except"
    /\ signals' = emit(signals, "output_signal", <<ErrorText(run_exc[1])>>)
    /\ pc' = "finished"
    /\ UNCHANGED emit_frame
    /\ UNCHANGED hist_vars
    /\ UNCHANGED not_dbg

\* DebuggerThread.run: except Exception as e: output_signal.emit(f"Error: ...")
run_except ==
    /\ pc = "except"
    /\ signals' = emit(signals, "output_signal", <<ErrorText(run_exc[1])>>)
    /\ pc' = "finally"
    /\ UNCHANGED emit_frame
    /\ UNCHANGED hist_vars
    /\ UNCHANGED not_dbg

\* DebuggerThread.run: finally: finished_signal.emit(0)
run_finally ==
    /\ pc = "finally"
    /\ signals' = emit(signals, "finished_signal", <<0>>)
    /\ pc' = "finished"
    /\ UNCHANGED emit_frame
    /\ UNCHANGED hist_vars
    /\ UNCHANGED not_dbg

(***************************************************************************)
(* ui/debugger.py: DebuggerThread's setters, which the dialog's buttons    *)
(* are meant to call from the UI thread.                                   *)
(***************************************************************************)
worker_vars == <<pc, cmd, rl_entry, output_buffer, out_queue, signals, paused_at, run_exc>>

\* A plausible slip: the newest intent replaces the pending ones.
continue_execution_resets_others ==
    /\ debugger_thread # "None"
    /\ recording => total_clicks < MaxClicks
    /\ should_continue' = TRUE
    /\ should_step' = FALSE
    /\ should_step_in' = FALSE
    /\ should_step_out' = FALSE
    /\ UNCHANGED <<dbg_exc, debugger_thread, thread_file_path, worker_vars>>
    /\ clicks' = count(clicks, 1)
    /\ UNCHANGED <<commands, recording, written>>
    /\ UNCHANGED not_dbg

\* DebuggerThread.continue_execution
continue_execution ==
    /\ debugger_thread # "None"
    /\ recording => total_clicks < MaxClicks
    /\ should_continue' = TRUE
    /\ UNCHANGED <<dbg_exc, debugger_thread, thread_file_path, should_step, should_step_in,
                   should_step_out, worker_vars>>
    /\ clicks' = count(clicks, 1)
    /\ UNCHANGED <<commands, recording, written>>
    /\ UNCHANGED not_dbg

\* DebuggerThread.step
step ==
    /\ debugger_thread # "None"
    /\ recording => total_clicks < MaxClicks
    /\ should_step' = TRUE
    /\ UNCHANGED <<dbg_exc, debugger_thread, thread_file_path, should_continue, should_step_in,
                   should_step_out, worker_vars>>
    /\ clicks' = count(clicks, 2)
    /\ UNCHANGED <<commands, recording, written>>
    /\ UNCHANGED not_dbg

\* DebuggerThread.step_in
step_in ==
    /\ debugger_thread # "None"
    /\ recording => total_clicks < MaxClicks
    /\ should_step_in' = TRUE
    /\ UNCHANGED <<dbg_exc, debugger_thread, thread_file_path, should_continue, should_step,
                   should_step_out, worker_vars>>
    /\ clicks' = count(clicks, 3)
    /\ UNCHANGED <<commands, recording, written>>
    /\ UNCHANGED not_dbg

\* DebuggerThread.step_out
step_out ==
    /\ debugger_thread # "None"
    /\ recording => total_clicks < MaxClicks
    /\ should_step_out' = TRUE
    /\ UNCHANGED <<dbg_exc, debugger_thread, thread_file_path, should_continue, should_step,
                   should_step_in, worker_vars>>
    /\ clicks' = count(clicks, 4)
    /\ UNCHANGED <<commands, recording, written>>
    /\ UNCHANGED not_dbg

(***************************************************************************)
(* The debugger: run, readline and the setters, every interleaving.        *)
(***************************************************************************)
\* The steps of DebuggerThread.run.
RunSteps ==
    \/ run_begin
    \/ run_raises
    \/ interaction
    \/ interaction_write
    \/ cmdloop_flush_raises
    \/ run_except
    \/ run_finally

\* The steps of CustomDebugger.readline.
ReadlineSteps ==
    \/ readline_test_continue
    \/ readline_clear_continue
    \/ readline_test_step
    \/ readline_clear_step
    \/ readline_test_step_in
    \/ readline_clear_step_in
    \/ readline_test_step_out
    \/ readline_clear_step_out
    \/ readline_msleep

\* The code written for the worker thread: run, and readline, the input
\* routine of the pdb that run drives.
WorkerNext == RunSteps \/ ReadlineSteps

\* The four setters.
ClickNext ==
    \/ continue_execution
    \/ step
    \/ step_in
    \/ step_out

\* The thread's caller, which constructs it, starts it, calls its setters
\* (the UI thread's part) and calls readline.
UINext == DebuggerThread__init__ \/ start \/ readline_call \/ ClickNext

DebuggerNext == WorkerNext \/ UINext

\* The same when no setter is called while readline is polling: readline
\* as a sequential routine.
DebuggerSeqNext ==
    \/ WorkerNext
    \/ DebuggerThread__init__
    \/ start
    \/ readline_call
    \/ (pc \notin RLStates /\ ClickNext)

\* CustomDebugger.write called with arbitrary texts, as pdb's print calls do.
write_call ==
    /\ Len(signals) + Len(output_buffer) < MaxWrites
    /\ \E text \in Texts :
        LET st == write([buf |-> output_buffer, sigs |-> signals], text) IN
        /\ output_buffer' = st.buf
        /\ signals' = st.sigs
        /\ written' = Append(written, text)
    /\ UNCHANGED <<dbg_exc, debugger_thread, thread_file_path, flags, pc, cmd, rl_entry, out_queue,
                   paused_at, run_exc>>
    /\ UNCHANGED <<clicks, commands, recording>>
    /\ UNCHANGED not_dbg

(***************************************************************************)
(* Claims about the debugger.                                              *)
(***************************************************************************)
ExactlyOne(f) == Cardinality({i \in 1..4 : f[i]}) = 1
NoFlag == <<FALSE, FALSE, FALSE, FALSE>>
\* The command of the i-th flag in readline's order.
CmdOf(i) == <<"c", "n", "s", "r">>[i]

\* C1: a readline call entered with exactly one flag set (and no setter
\* called during the call) does not fail, and the step on which it returns
\* hands back that flag's command, sets that flag to False and leaves the
\* other three as they were at entry.
C1_ReadlineOneFlag ==
    [][(pc \in RLStates /\ ExactlyOne(rl_entry)) =>
         /\ pc' # "raised"
         /\ pc' = "returned" =>
              \A i \in 1..4 : rl_entry[i] =>
                  /\ cmd' = CmdOf(i)
                  /\ flags' = [rl_entry EXCEPT ![i] = FALSE]]_vars

\* C1's case: readline entered with only should_step_out set has returned 'r'
\* and no flag is set any more.
C1_Witness ==
    /\ pc = "returned"
    /\ rl_entry = <<FALSE, FALSE, FALSE, TRUE>>
    /\ cmd = "r"
    /\ flags = NoFlag

\* C2: while no flag is set, a step of readline neither returns nor fails:
\* the call stays in its polling loop.
C2_KeepsPolling ==
    [][(pc \in RLStates /\ flags = NoFlag) => pc' \in RLStates]_vars

\* Number of newline characters in a text.
RECURSIVE newlines(_)
newlines(text) ==
    IF text = <<>> THEN 0
    ELSE (IF Head(text) = NL THEN 1 ELSE 0) + newlines(Tail(text))

\* The texts write has forwarded through output_signal.
forwarded == {signals[i].arg[1] : i \in {j \in 1..Len(signals) : signals[j].sig = "output_signal"}}

\* C3 (as claimed): every string write forwards holds exactly one newline,
\* and that newline is its last character.
C3_OneLine == \A t \in forwarded : endswith_nl(t) /\ newlines(t) = 1

\* C3 (amended): every string write forwards is non-empty and ends with a
\* newline; it may hold further newlines before the last one.
C3_EndsWithNewline == \A t \in forwarded : endswith_nl(t)

\* C3's case: write has forwarded a string that holds two lines.
C3_Witness == \E t \in forwarded : endswith_nl(t) /\ newlines(t) = 2

\* The strings emitted through output_signal, in emission order.
emitted_by_write ==
    LET outs == SelectSeq(signals, LAMBDA sg : sg.sig = "output_signal")
    IN [i \in 1..Len(outs) |-> outs[i].arg[1]]

\* C21: nothing written is lost, duplicated or reordered: the strings emitted
\* through output_signal followed by the texts still in output_buffer,
\* concatenated, equal the concatenation of all texts passed to write in call
\* order; and output_buffer is empty right after a write whose text ends with
\* a newline.
C21_NothingLost ==
    /\ [](join(emitted_by_write) \o join(output_buffer) = join(written))
    /\ [][(written' # written /\ endswith_nl(written'[Len(written')]))
            => output_buffer' = <<>>]_vars

\* C21's case: a text without a newline was buffered, a later write ended the
\* line and forwarded both, and a third write left text in the buffer.
C21_Witness ==
    /\ Len(written) = 3
    /\ written[1] # <<>> /\ ~endswith_nl(written[1])
    /\ endswith_nl(written[2])
    /\ Len(emitted_by_write) = 1
    /\ output_buffer = <<written[3]>> /\ written[3] # <<>>

\* The three signals of the pause st have been emitted, in user_line's order.
emitted_for(st) ==
    \E i \in 1..(Len(signals) - 2) :
        /\ signals[i].sig = "breakpoint_signal"
        /\ signals[i].arg = <<st.file, st.line>>
        /\ signals[i + 1].sig = "variables_signal"
        /\ signals[i + 2].sig = "stack_signal"

\* pdb has written the prompt of the pause and turns to its input for the
\* pause's command, or the run has gone on from there.
prompted ==
    \/ pc = "write" /\ out_queue = <<>>
    \/ pc \in {"except", "finally", "finished"}

\* C4: by the time pdb turns to readline for the command of a pause at a
\* line, and ever after, the breakpoint, variables and stack signals of
\* that line have been emitted.
C4_EmittedBeforeWaiting ==
    (paused_at.kind = "line" /\ prompted) => emitted_for(paused_at)

\* C6 (as claimed): no step of the code that runs in the worker thread
\* changes any of the four flags.
C6_WorkerOnlyReads == [][WorkerNext => UNCHANGED flags]_vars

\* C6 (amended): only the setters set a flag to True, and the thread's
\* caller never resets one; the code that runs in the worker thread changes
\* a flag only by resetting to False the flag whose command readline
\* returns on that step.
C6_WorkerOnlyResets ==
    [][/\ UINext => \A i \in 1..4 : flags[i] => flags'[i]
       /\ WorkerNext => \A i \in 1..4 : flags'[i] # flags[i] =>
                            /\ flags[i] /\ ~flags'[i]
                            /\ pc' = "returned"
                            /\ cmd' = CmdOf(i)]_vars

\* C6's case: readline has reset should_step, which step() had set, and has
\* returned 'n'.
C6_Witness ==
    /\ pc = "returned"
    /\ cmd = "n"
    /\ rl_entry[2]
    /\ ~should_step

\* The call of the i-th setter, in readline's order of the flags.
ClickOf(i) ==
    CASE i = 1 -> continue_execution
      [] i = 2 -> step
      [] i = 3 -> step_in
      [] OTHER -> step_out

\* The step on which readline returns the i-th command.
Returns(i) == pc \in RLStates /\ pc' = "returned" /\ cmd' = CmdOf(i)

\* C17: under every interleaving of the setters with readline's polling, a
\* flag goes from True to False only on the step on which readline returns
\* that flag's command, it goes from False to True only on a call of its own
\* setter, and readline returns a command only when its flag is set, which it
\* resets.
C17_ClearedOnlyByItsReturn ==
    [][\A i \in 1..4 :
         /\ (flags[i] /\ ~flags'[i]) => Returns(i)
         /\ (~flags[i] /\ flags'[i]) => ClickOf(i)
         /\ Returns(i) => (flags[i] /\ ~flags'[i])]_vars

\* C17's case: a readline call that found no flag set when it began has
\* returned 'n': step() was called while it was polling.
C17_Witness ==
    /\ pc = "returned"
    /\ rl_entry = NoFlag
    /\ cmd = "n"
    /\ ~should_step

\* C18: there is no queue of intents.  No command has been returned more
\* often than its setter was called, and a return hands back one command and
\* leaves its flag reset however often the setter was called before.
C18_NoQueue ==
    /\ [](\A i \in 1..4 : commands[i] <= clicks[i])
    /\ [][\A i \in 1..4 : Returns(i) =>
              /\ commands'[i] = commands[i] + 1
              /\ ~flags'[i]]_vars

\* C18's case: step() was called twice and nothing else; readline has
\* returned 'n' once and no flag is set.
C18_Witness ==
    /\ clicks = <<0, 2, 0, 0>>
    /\ commands = <<0, 1, 0, 0>>
    /\ pc = "returned"
    /\ flags = NoFlag

\* The first set flag in readline's order.
first_set(f) == CHOOSE i \in 1..4 : f[i] /\ \A j \in 1..(i - 1) : ~f[j]

SeveralSet(f) == Cardinality({i \in 1..4 : f[i]}) >= 2

\* C19: a readline call entered with several flags set (and no setter called
\* during the call) does not fail; it returns the command of the first set
\* flag in the order continue, step-over, step-in, step-out, resets that flag
\* and leaves the others as they were, set for the calls that follow.
C19_FirstSetFlagFirst ==
    [][(pc \in RLStates /\ SeveralSet(rl_entry)) =>
         /\ pc' # "raised"
         /\ pc' = "returned" =>
              /\ cmd' = CmdOf(first_set(rl_entry))
              /\ flags' = [rl_entry EXCEPT ![first_set(rl_entry)] = FALSE]]_vars

\* C19's case: readline entered with should_step and should_step_in set has
\* returned 'n', and should_step_in alone is still set.
C19_Witness ==
    /\ pc = "returned"
    /\ rl_entry = <<FALSE, TRUE, TRUE, FALSE>>
    /\ cmd = "n"
    /\ flags = <<FALSE, FALSE, TRUE, FALSE>>

\* C20 (as claimed): a flag set while the debugger is not waiting in
\* readline stays set, and the next readline call returns its command:
\* every flag that is set when a call begins is the command that call
\* returns.
C20_ConsumedByNextCall ==
    [][/\ pc \notin RLStates => \A i \in 1..4 : flags[i] => flags'[i]
       /\ (pc \in RLStates /\ pc' = "returned") =>
            \A i \in 1..4 : rl_entry[i] => cmd' = CmdOf(i)]_vars

\* C20 (amended): a flag set while the debugger is not waiting in readline
\* stays set until a readline call returns its command: no other step resets
\* it.  The next readline call neither fails nor sleeps, and returns the
\* command of a flag that is set and that it resets: the first in readline's
\* order of those set when the call began, or one that comes before it.
C20_FlagKeptUntilRead ==
    [][/\ pc \notin RLStates => \A i \in 1..4 : flags[i] => flags'[i]
       /\ \A i \in 1..4 : (flags[i] /\ ~flags'[i]) => Returns(i)
       /\ (pc \in RLStates /\ rl_entry # NoFlag) =>
            /\ pc' \notin {"msleep", "raised"}
            /\ pc' = "returned" =>
                 \E i \in 1..first_set(rl_entry) :
                    /\ cmd' = CmdOf(i)
                    /\ flags[i] /\ ~flags'[i]
                    /\ \A j \in 1..4 : j # i => flags'[j] = flags[j]]_vars

\* C20's case: step() and step_out() were called before the run ended; the
\* readline call that followed began with both flags set and has returned
\* 'n', and should_step_out is still set.
C20_Witness ==
    /\ pc = "returned"
    /\ Len(signals) > 0
    /\ rl_entry = <<FALSE, TRUE, FALSE, TRUE>>
    /\ cmd = "n"
    /\ flags = <<FALSE, FALSE, FALSE, TRUE>>

\* text.startswith('Error: '): DebuggerThread.run's f"Error: {str(e)}" does,
\* no text pdb writes does.
startswith_Error(text) == Len(text) > 0 /\ text[1] = "Error: "

\* How many finished_signal emissions there have been.
finished_count == Len(SelectSeq(signals, LAMBDA sg : sg.sig = "finished_signal"))

\* The last emission is finished_signal with exit code 0.
finished_last ==
    /\ signals # <<>>
    /\ signals[Len(signals)].sig = "finished_signal"
    /\ signals[Len(signals)].arg = <<0>>

\* The emission before the last is an output_signal starting with 'Error: '.
error_before_last ==
    /\ Len(signals) >= 2
    /\ signals[Len(signals) - 1].sig = "output_signal"
    /\ startswith_Error(signals[Len(signals) - 1].arg[1])

\* C22: every execution of DebuggerThread.run emits finished_signal exactly
\* once, as its last emission and with exit code 0: once run has been
\* entered, the state where it has been emitted once, last, is reached; it
\* is never emitted twice; and when the run went through the except clause
\* an output_signal starting with 'Error: ' comes directly before it.
C22_EveryRunFinishes ==
    /\ (pc = "run") ~> (pc = "finished" /\ finished_count = 1 /\ finished_last)
    /\ [](finished_count <= 1)
    /\ [](pc = "finished" => finished_count = 1)
    /\ [](finished_count = 1 => finished_last)
    /\ []((finished_count = 1 /\ run_exc # None) => error_before_last)

\* C22's case: the run ended by the AttributeError of pdb's prompt, and its
\* two last emissions are the error text and finished_signal.
C22_Witness ==
    /\ pc = "finished"
    /\ run_exc = Some(FlushErrorText)
    /\ error_before_last /\ finished_last

(***************************************************************************)
(* ui/terminal.py                                                          *)
(***************************************************************************)
\* The texts a user types into the input line.
Commands == {"", "ls", "pwd"}

\* Before Terminal() is called.
TerminalInit ==
    /\ terminal = "unbuilt"
    /\ term_process = "None"
    /\ qprocess_state = "NotRunning"
    /\ shell_stdin = <<>>
    /\ shell_unread = <<>>
    /\ term_output = <<>>
    /\ input_line = ""
    /\ input_enabled = TRUE

\* Terminal.start_shell, called at the end of init_ui: what it leaves in
\* self.process, in the QProcess's state and in the output area.
start_shell ==
    [process |-> "QProcess",
     state |-> "Starting",
     output |-> << "WebE Terminal", "==============", "" >>]

\* Terminal.__init__: init_ui() (which runs start_shell), and only then
\* self.process = None.  The QProcess stays alive as a child of the widget.
Terminal__init__ ==
    /\ terminal = "unbuilt"
    /\ terminal' = "built"
    /\ qprocess_state' = start_shell.state
    /\ term_output' = term_output \o start_shell.output
    /\ term_process' = "None"
    /\ UNCHANGED <<shell_stdin, shell_unread, input_line, input_enabled>>
    /\ UNCHANGED not_term

\* The terminal as MainWindow.init_ui leaves it (line 59): Terminal() has
\* run.
TerminalBuilt ==
    /\ terminal = "built"
    /\ term_process = "None"
    /\ qprocess_state = start_shell.state
    /\ shell_stdin = <<>>
    /\ shell_unread = <<>>
    /\ term_output = start_shell.output
    /\ input_line = ""
    /\ input_enabled = TRUE

\* The shell process comes up.
shell_started ==
    /\ qprocess_state = "Starting"
    /\ qprocess_state' = "Running"
    /\ UNCHANGED <<terminal, term_process, shell_stdin, shell_unread, term_output,
                   input_line, input_enabled>>
    /\ UNCHANGED not_term

\* The user edits the input line.
type_command ==
    /\ terminal = "built"
    /\ input_enabled
    /\ \E text \in Commands : input_line' = text
    /\ UNCHANGED <<terminal, term_process, qprocess_state, shell_stdin, shell_unread,
                   term_output, input_enabled>>
    /\ UNCHANGED not_term

\* Terminal.execute_command (returnPressed)
execute_command ==
    /\ terminal = "built"
    /\ input_enabled
    /\ Len(term_output) < Len(start_shell.output) + MaxCommands
    /\ IF input_line = ""
       THEN UNCHANGED <<term_output, shell_stdin, input_line>>
       ELSE /\ term_output' = Append(term_output, "> " \o input_line)
            /\ shell_stdin' =
                 IF term_process # "None" /\ qprocess_state = "Running"
                 THEN Append(shell_stdin, input_line \o "\n")
                 ELSE shell_stdin
            /\ input_line' = ""
    /\ UNCHANGED <<terminal, term_process, qprocess_state, shell_unread, input_enabled>>
    /\ UNCHANGED not_term

\* The shell prints something (cmd.exe its banner, a command its result).
shell_prints ==
    /\ qprocess_state = "Running"
    /\ Len(shell_unread) < MaxUnread
    /\ shell_unread' = Append(shell_unread, "out")
    /\ UNCHANGED <<terminal, term_process, qprocess_state, shell_stdin, term_output,
                   input_line, input_enabled>>
    /\ UNCHANGED not_term

RECURSIVE concat(_)
\* The chunks readAll() returns, as one string.
concat(chunks) == IF chunks = <<>> THEN "" ELSE Head(chunks) \o concat(Tail(chunks))

\* Terminal.read_output (readyRead)
read_output ==
    /\ shell_unread # <<>>
    /\ IF term_process # "None"
       THEN /\ term_output' = Append(term_output, concat(shell_unread))
            /\ shell_unread' = <<>>
       ELSE UNCHANGED <<term_output, shell_unread>>
    /\ UNCHANGED <<terminal, term_process, qprocess_state, shell_stdin, input_line,
                   input_enabled>>
    /\ UNCHANGED not_term

\* The shell process ends with exit_code; Terminal.shell_finished (finished)
shell_finished ==
    /\ qprocess_state = "Running"
    /\ \E exit_code \in {0, 1} :
         term_output' = Append(term_output, "Shell exited with code " \o format_int(exit_code))
    /\ qprocess_state' = "NotRunning"
    /\ input_enabled' = FALSE
    /\ UNCHANGED <<terminal, term_process, shell_stdin, shell_unread, input_line>>
    /\ UNCHANGED not_term

TerminalNext ==
    \/ Terminal__init__
    \/ shell_started
    \/ type_command
    \/ execute_command
    \/ shell_prints
    \/ read_output
    \/ shell_finished

(***************************************************************************)
(* Claims about the terminal.                                              *)
(***************************************************************************)
\* C7: executing a non-empty command while the shell process is running
\* writes the command and a newline to the shell's standard input, echoes
\* '> command' in the output area and clears the input line; executing an
\* empty input changes nothing.
C7_CommandReachesShell ==
    [][execute_command =>
         IF input_line = ""
         THEN UNCHANGED term_vars
         ELSE qprocess_state = "Running" =>
                /\ shell_stdin' = Append(shell_stdin, input_line \o "\n")
                /\ term_output' = Append(term_output, "> " \o input_line)
                /\ input_line' = ""]_vars

(***************************************************************************)
(* ui/projectmanager.py                                                    *)
(***************************************************************************)
\* What a user types into the create dialog, and the files added to projects.
Names == {"", "app", "lib"}
Paths == {"", "/p"}
Files == {"f.py", "g.py"}

\* os.path.join(path, f'{name}.webe.json')
project_file(path, name) == (path \o "/") \o (name \o ".webe.json")

\* Every project file the model can touch.
ProjectFiles == {project_file(d, n) : d \in {"/p", "/ext", "/moved"}, n \in Names}

\* json.dump(project_data, f): the file's new content.  A file's content is
\* [ok: whether it parses as JSON, data: what json.load returns for it].
json_dump(project_data) == [ok |-> TRUE, data |-> project_data]

\* File contents found on the disk, not written by this program: a project
\* file recording an empty name, a file that is not JSON, and the file of a
\* project whose directory was moved after it was created in /p.
NoNameProject == [name |-> "", path |-> "/ext", files |-> <<>>]
MovedProject == [name |-> "app", path |-> "/p", files |-> <<>>]
NotJson == [ok |-> FALSE, data |-> NoNameProject]
\* A file of no bytes, as open(project_file, 'w') leaves it: not JSON (data
\* is never read of a file that does not parse).
EmptyFile == [ok |-> FALSE, data |-> [name |-> "", path |-> "", files |-> <<>>]]

\* ProjectManager.__init__, and the disk as the program finds it.
ProjectInit ==
    /\ current_project = None
    /\ disk = [f \in ProjectFiles |->
                 CASE f = project_file("/ext", "") -> Some(json_dump(NoNameProject))
                   [] f = project_file("/ext", "lib") -> Some(NotJson)
                   [] f = project_file("/moved", "app") -> Some(json_dump(MovedProject))
                   [] OTHER -> None]
    /\ dirs = {"/ext", "/moved"}
    /\ proj_exc = None
    /\ proj_propagated = FALSE
    /\ proj_message = None
    /\ proj_result = None
    /\ proj_call = None

warning(text) == Some([kind |-> "warning", text |-> text])
information(text) == Some([kind |-> "information", text |-> text])

\* The outcome of an operation that ended without raising and returned None.
returned(project, d, ds, message) ==
    [current |-> project, disk |-> d, dirs |-> ds, exc |-> None,
     propagated |-> FALSE, message |-> message, result |-> None]

\* The same when the operation returned the record that became current.
returned_project(project, d, ds, message) ==
    [returned(project, d, ds, message) EXCEPT !.result = project]

\* The outcome of an operation that raised exc and did not catch it.
raised(project, d, ds, exc) ==
    [current |-> project, disk |-> d, dirs |-> ds, exc |-> Some(exc),
     propagated |-> TRUE, message |-> None, result |-> None]

\* with open(project_file, 'w') as f: json.dump(project, f) where the
\* directories ds exist: how it ends.  open raises when the directory is
\* missing.
write_outcome(project, ds, w) == IF project.path \in ds THEN w ELSE "open_fails"

\* with open(project_file, 'w') ... raising: when open went through, the
\* project file is left empty, whatever it held.
write_raised(project, d, ds, w) ==
    IF write_outcome(project.data, ds, w) = "open_fails"
    THEN raised(project.current, d, ds, "open failed")
    ELSE raised(project.current,
                [d EXCEPT ![project_file(project.data.path, project.data.name)] =
                              Some(EmptyFile)],
                ds, "write failed")

\* MainWindow.new_project -> ProjectManager.create_project.  The dialog is
\* left with `button`; CreateProjectDialog.accept refuses an empty name or
\* path with a warning (the user then cancels).
create_project(name, path, button, mkdir_ok, w) ==
    LET project_data == [name |-> name, path |-> path, files |-> <<>>]
        made == dirs \cup {path}
    IN
    IF button = "Cancel" THEN returned(current_project, disk, dirs, None)
    ELSE IF name = ""
      THEN returned(current_project, disk, dirs, warning("Project name is required"))
    ELSE IF path = ""
      THEN returned(current_project, disk, dirs, warning("Project path is required"))
    ELSE IF path \notin dirs /\ ~mkdir_ok
      THEN raised(current_project, disk, dirs, "makedirs failed")
    ELSE IF write_outcome(project_data, made, w) # "ok"
      THEN write_raised([current |-> current_project, data |-> project_data], disk, made, w)
    ELSE returned_project(Some(project_data),
                  [disk EXCEPT ![project_file(path, name)] = Some(json_dump(project_data))],
                  made,
                  information("Project created successfully"))

\* A plausible slip: current_project cleared before the file is read.
open_project_clears_current(choice, read_ok) ==
    IF choice = None THEN returned(current_project, disk, dirs, None)
    ELSE IF ~read_ok
      THEN returned(None, disk, dirs, warning("Failed to open project: open failed"))
    ELSE IF ~disk[choice[1]][1].ok
      THEN returned(None, disk, dirs, warning("Failed to open project: JSONDecodeError"))
    ELSE returned_project(Some(disk[choice[1]][1].data), disk, dirs,
                          information("Project opened successfully"))

\* MainWindow.open_project -> ProjectManager.open_project.  choice is the
\* file picked in the file dialog, None when the dialog is cancelled.
open_project(choice, read_ok) ==
    IF choice = None THEN returned(current_project, disk, dirs, None)
    ELSE IF ~read_ok
      THEN returned(current_project, disk, dirs, warning("Failed to open project: open failed"))
    ELSE IF ~disk[choice[1]][1].ok
      THEN returned(current_project, disk, dirs, warning("Failed to open project: JSONDecodeError"))
    ELSE returned_project(Some(disk[choice[1]][1].data), disk, dirs,
                          information("Project opened successfully"))

\* list.remove(x) / list without x
RECURSIVE remove(_, _)
remove(list, x) ==
    IF list = <<>> THEN <<>>
    ELSE IF Head(list) = x THEN Tail(list)
    ELSE <<Head(list)>> \o remove(Tail(list), x)

\* x in list
in(x, list) == \E i \in 1..Len(list) : list[i] = x

\* The save at the end of add_file_to_project, remove_file_from_project and
\* ProjectFilesDialog.save_project: write `project` to its own project file.
save(project, w) ==
    IF write_outcome(project, dirs, w) = "ok"
    THEN returned(Some(project),
                  [disk EXCEPT ![project_file(project.path, project.name)] =
                                   Some(json_dump(project))],
                  dirs, None)
    ELSE write_raised([current |-> Some(project), data |-> project], disk, dirs, w)

\* A plausible slip: the path appended without looking for it in the list.
add_file_to_project_always_appends(file_path, w) ==
    IF current_project = None THEN returned(current_project, disk, dirs, None)
    ELSE save([current_project[1] EXCEPT !.files = Append(@, file_path)], w)

\* ProjectManager.add_file_to_project(file_path)
add_file_to_project(file_path, w) ==
    IF current_project = None THEN returned(current_project, disk, dirs, None)
    ELSE IF in(file_path, current_project[1].files)
      THEN returned(current_project, disk, dirs, None)
    ELSE save([current_project[1] EXCEPT !.files = Append(@, file_path)], w)

\* ProjectManager.remove_file_from_project(file_path)
remove_file_from_project(file_path, w) ==
    IF current_project = None THEN returned(current_project, disk, dirs, None)
    ELSE IF ~in(file_path, current_project[1].files)
      THEN returned(current_project, disk, dirs, None)
    ELSE save([current_project[1] EXCEPT !.files = remove(@, file_path)], w)

\* The loop of ProjectFilesDialog.add_file over the picked paths.
RECURSIVE add_all(_, _)
add_all(files, file_paths) ==
    IF file_paths = <<>> THEN files
    ELSE add_all(IF in(Head(file_paths), files) THEN files
                 ELSE Append(files, Head(file_paths)),
                 Tail(file_paths))

\* The loop of ProjectFilesDialog.remove_file over the selected items.
RECURSIVE remove_all(_, _)
remove_all(files, selected) ==
    IF selected = <<>> THEN files
    ELSE remove_all(IF in(Head(selected), files) THEN remove(files, Head(selected))
                    ELSE files,
                    Tail(selected))

\* ProjectFilesDialog.add_file on the current project (the dialog holds the
\* manager's own record), ending with save_project.
ProjectFilesDialog_add_file(file_paths, w) ==
    save([current_project[1] EXCEPT !.files = add_all(@, file_paths)], w)

\* ProjectFilesDialog.remove_file, ending with save_project.
ProjectFilesDialog_remove_file(selected, w) ==
    save([current_project[1] EXCEPT !.files = remove_all(@, selected)], w)

\* The state an operation's outcome leaves.
proj_becomes(outcome) ==
    /\ current_project' = outcome.current
    /\ disk' = outcome.disk
    /\ dirs' = outcome.dirs
    /\ proj_exc' = outcome.exc
    /\ proj_propagated' = outcome.propagated
    /\ proj_message' = outcome.message
    /\ proj_result' = outcome.result
    /\ UNCHANGED not_proj

\* The lists a file dialog or a selection can hand over.
FileLists == {<<>>} \cup {<<f>> : f \in Files}
               \cup {<<pair[1], pair[2]>> : pair \in {q \in Files \X Files : q[1] # q[2]}}

\* The outcomes of os.makedirs and of the write are inputs where the code
\* gets as far as calling them.
do_create_project ==
    /\ TRUE
    /\ \E name \in Names, path \in Paths, button \in {"Create", "Cancel"} :
       \E mkdir_ok \in IF button = "Create" /\ name # "" /\ path \notin dirs \cup {""}
                       THEN BOOLEAN ELSE {TRUE},
          w \in IF button = "Create" /\ name # "" /\ path # ""
                THEN WriteOutcomes ELSE {"ok"} :
        /\ proj_becomes(create_project(name, path, button, mkdir_ok, w))
        /\ proj_call' = <<"create_project", name, path, button>>

do_open_project ==
    /\ TRUE
    /\ \E choice \in {None} \cup {Some(f) : f \in {g \in ProjectFiles : disk[g] # None}},
       read_ok \in BOOLEAN :
        /\ proj_becomes(open_project(choice, read_ok))
        /\ proj_call' = IF proj_result' # None THEN <<"open_project", choice[1]>> ELSE None

\* ProjectManager.set_current_project(project)
set_current_project(project) == returned(project, disk, dirs, None)

\* The records (or None) a caller hands to set_current_project.
Projects == {None, Some(MovedProject)}

do_set_current_project ==
    /\ TRUE
    /\ \E project \in Projects :
        /\ proj_becomes(set_current_project(project))
        /\ proj_call' = None

do_add_file_to_project ==
    /\ TRUE
    /\ \E file_path \in Files :
       \E w \in IF current_project # None /\ ~in(file_path, current_project[1].files)
                THEN WriteOutcomes ELSE {"ok"} :
        /\ proj_becomes(add_file_to_project(file_path, w))
        /\ proj_call' = None

do_remove_file_from_project ==
    /\ TRUE
    /\ \E file_path \in Files :
       \E w \in IF current_project # None /\ in(file_path, current_project[1].files)
                THEN WriteOutcomes ELSE {"ok"} :
        /\ proj_becomes(remove_file_from_project(file_path, w))
        /\ proj_call' = None

\* MainWindow.manage_project_files opens the dialog only for a project.
do_dialog_add_file ==
    /\ current_project # None
    /\ \E file_paths \in FileLists, w \in WriteOutcomes :
        /\ proj_becomes(ProjectFilesDialog_add_file(file_paths, w))
        /\ proj_call' = None

do_dialog_remove_file ==
    /\ current_project # None
    /\ \E selected \in {l \in FileLists : \A i \in 1..Len(l) : in(l[i], current_project[1].files)},
          w \in WriteOutcomes :
        /\ proj_becomes(ProjectFilesDialog_remove_file(selected, w))
        /\ proj_call' = None

ProjectNext ==
    \/ do_create_project
    \/ do_open_project
    \/ do_set_current_project
    \/ do_add_file_to_project
    \/ do_remove_file_from_project
    \/ do_dialog_add_file
    \/ do_dialog_remove_file

(***************************************************************************)
(* Claims about the project manager.                                       *)
(***************************************************************************)
\* C8: the current project is None or a record with a non-empty name.
C8_NameNonEmpty == current_project # None => current_project[1].name # ""

\* The exceptions of creating the directory and of writing the project file.
WriteFailures == {"makedirs failed", "open failed", "write failed"}

\* C9: when creating the project directory or writing the project file
\* failed in the last operation, the exception did not leave the operation
\* and a message box carrying its text was shown.
C9_FailureSurfaced ==
    (proj_exc # None /\ proj_exc[1] \in WriteFailures) =>
        /\ ~proj_propagated
        /\ proj_message # None

\* The last operation was create_project with the dialog accepted (Create
\* pressed with both fields filled in).
created(name, path) ==
    /\ proj_call = <<"create_project", name, path, "Create">>
    /\ name # "" /\ path # ""

\* C13: when the create dialog is accepted with name N and path P, the file
\* N.webe.json in P holds exactly the record {name: N, path: P, files: []},
\* that record is the current project and it is the value returned.
C13_CreateWritesRecord ==
    \A name \in Names, path \in Paths :
        created(name, path) =>
            LET record == [name |-> name, path |-> path, files |-> <<>>] IN
            /\ disk[project_file(path, name)] = Some(json_dump(record))
            /\ current_project = Some(record)
            /\ proj_result = Some(record)

\* The project files the Open Project dialog can hand over, or None.
OpenChoices == {None} \cup {Some(f) : f \in {g \in ProjectFiles : disk[g] # None}}

\* The file picked cannot be read, or does not parse as JSON.
open_fails(choice, read_ok) == choice # None /\ (~read_ok \/ ~disk[choice[1]][1].ok)

\* C27: when the file dialog is cancelled, or the file picked cannot be read
\* or parsed, open_project returns None and current_project stays as it was;
\* in the failure case a warning with the exception text is shown.
C27_FailedOpenKeepsProject ==
    \A choice \in OpenChoices, read_ok \in BOOLEAN :
        (choice = None \/ open_fails(choice, read_ok)) =>
            LET outcome == open_project(choice, read_ok) IN
            /\ outcome.result = None
            /\ outcome.current = current_project
            /\ ~outcome.propagated
            /\ choice = None => outcome.message = None
            /\ open_fails(choice, read_ok) =>
                  outcome.message \in {warning("Failed to open project: " \o e) :
                                          e \in {"open failed", "JSONDecodeError"}}

\* C27's case: with a project open, opening a file that is not JSON showed
\* the warning and left that project current.
C27_Witness ==
    /\ proj_message = warning("Failed to open project: JSONDecodeError")
    /\ proj_result = None
    /\ current_project # None

\* The files list of the current project.
files == current_project[1].files

\* No path is in the list twice.
no_duplicates(list) == \A i, j \in 1..Len(list) : list[i] = list[j] => i = j

\* The outcome of an operation that did nothing at all.
nothing_done == returned(current_project, disk, dirs, None)

\* C28: the files list of the current project never holds a path twice;
\* add_file_to_project of a path already in the list and
\* remove_file_from_project of a path not in it change neither the list nor
\* any project file, both do nothing without a current project, and
\* ProjectFilesDialog.add_file of paths already listed leaves the list as it is.
C28_NoDuplicateFiles ==
    /\ current_project # None => no_duplicates(files)
    /\ \A file_path \in Files, w \in WriteOutcomes :
        /\ current_project = None =>
              /\ add_file_to_project(file_path, w) = nothing_done
              /\ remove_file_from_project(file_path, w) = nothing_done
        /\ (current_project # None /\ in(file_path, files)) =>
              add_file_to_project(file_path, w) = nothing_done
        /\ (current_project # None /\ ~in(file_path, files)) =>
              remove_file_from_project(file_path, w) = nothing_done
    /\ current_project # None =>
          \A file_paths \in FileLists :
              (\A i \in 1..Len(file_paths) : in(file_paths[i], files)) =>
                  ProjectFilesDialog_add_file(file_paths, "ok").current = current_project

\* C28's case: project "lib" in /p, which only create_project can have made
\* (no file on the disk loads as it), after both files were added to it:
\* every further add is an add of a listed path.
C28_Witness ==
    /\ current_project # None
    /\ current_project[1].name = "lib" /\ current_project[1].path = "/p"
    /\ Len(files) = 2
    /\ disk[project_file("/p", "lib")] = Some(json_dump(current_project[1]))

\* The last operation was an open_project that loaded a project file.
just_opened == proj_call # None /\ proj_call[1] = "open_project"

\* C29: when the operation after open_project has changed the files list of
\* the project that was loaded, and returned, the file that was opened
\* holds the updated list.
C29_OpenedFileUpdated ==
    [][(/\ just_opened
        /\ current_project' # None
        /\ current_project'[1].files # current_project[1].files
        /\ proj_exc' = None /\ proj_call' = None)
       => /\ disk'[proj_call[2]] # None
          /\ disk'[proj_call[2]][1].ok
          /\ disk'[proj_call[2]][1].data.files = current_project'[1].files]_vars

(***************************************************************************)
(* ui/snippets.py                                                          *)
(***************************************************************************)
\* load_snippets' default_snippets
default_snippets ==
    <<
      [name |-> "For Loop", prefix |-> "for",
       body |-> "for item in iterable:\n    # TODO: Process item\n    pass"],
      [name |-> "While Loop", prefix |-> "while",
       body |-> "while condition:\n    # TODO: Process\n    pass"],
      [name |-> "If Statement", prefix |-> "if",
       body |-> "if condition:\n    # TODO: Process\n    pass\nelif another_condition:\n    # TODO: Process\n    pass\nelse:\n    # TODO: Process\n    pass"],
      [name |-> "Function Definition", prefix |-> "def",
       body |-> "def function_name(parameters):\n    \"\"\"Function docstring\"\"\"\n    # TODO: Implement function\n    return result"],
      [name |-> "Class Definition", prefix |-> "class",
       body |-> "class ClassName:\n    \"\"\"Class docstring\"\"\"\n    \n    def __init__(self, parameters):\n        self.parameters = parameters\n    \n    def method(self):\n        \"\"\"Method docstring\"\"\"\n        # TODO: Implement method\n        pass"],
      [name |-> "Try-Except Block", prefix |-> "try",
       body |-> "try:\n    # TODO: Risky operation\n    pass\nexcept Exception as e:\n    # TODO: Handle exception\n    print(f'Error: {e}')\nfinally:\n    # TODO: Cleanup\n    pass"],
      [name |-> "Import Statements", prefix |-> "import",
       body |-> "import os\nimport sys\nimport json\nfrom datetime import datetime"],
      [name |-> "Main Block", prefix |-> "main",
       body |-> "if __name__ == \"__main__\":\n    # TODO: Main execution\n    pass"]
    >>

\* What a user types into the dialog's three fields.
SnippetNames == {"", "Mine"}
SnippetPrefixes == {"", "for", "my"}
SnippetBodies == {"", "pass"}

\* json.dump(snippets, f, indent=4): the text written, as the array's objects
\* in list order, each the sequence of its "key": value members in the dict's
\* insertion order.
json_dump_snippets(list) ==
    [i \in 1..Len(list) |->
        << <<"name", list[i].name>>, <<"prefix", list[i].prefix>>,
           <<"body", list[i].body>> >>]

\* json.load of one object: a dict of its keys; of two members with the same
\* key the later one is kept.
json_load_object(members) ==
    [k \in {members[i][1] : i \in 1..Len(members)} |->
        members[CHOOSE i \in 1..Len(members) :
                    /\ members[i][1] = k
                    /\ \A j \in 1..Len(members) : members[j][1] = k => j <= i][2]]

\* json.load(f) of a text json_dump_snippets wrote
json_load_snippets(text) == [i \in 1..Len(text) |-> json_load_object(text[i])]

\* A snippets.json that is not JSON (an empty file is none), and one a user
\* saved earlier.
NotJsonSnippets == [ok |-> FALSE, data |-> <<>>]
UserSnippets == [ok |-> TRUE,
                 data |-> json_dump_snippets(
                             <<[name |-> "Mine", prefix |-> "my", body |-> "pass"]>>)]

\* SnippetManager.save_snippets(snippets): the file afterwards and the value
\* returned (False when open or the write raised; a write that raises after
\* open(snippet_file, 'w') went through leaves a file that is not JSON).
save_snippets(list, file, w) ==
    CASE w = "ok" ->
            [file |-> Some([ok |-> TRUE, data |-> json_dump_snippets(list)]), result |-> TRUE]
      [] w = "write_fails" -> [file |-> Some(NotJsonSnippets), result |-> FALSE]
      [] OTHER -> [file |-> file, result |-> FALSE]

\* Whether open(snippet_file, 'r') goes through.
ReadOutcomes == {"ok", "open_fails"}

\* SnippetManager.load_snippets with snippets.json as `file`: the list
\* returned and the file afterwards.  A file that exists is read; whatever
\* is raised on the way (open refusing, a text that is not JSON) is
\* swallowed by the bare except and the defaults are returned, the file
\* left as it is.  Only a missing file has the defaults saved.
load_snippets(file, r, w) ==
    IF file # None
    THEN [snippets |-> IF r = "ok" /\ file[1].ok THEN json_load_snippets(file[1].data)
                       ELSE default_snippets,
          file |-> file]
    ELSE [snippets |-> default_snippets,
          file |-> save_snippets(default_snippets, file, w).file]

\* SnippetManager.__init__ when it finds snippets.json as `file`.
SnippetManager__init__(file, r, w) ==
    /\ snippets = load_snippets(file, r, w).snippets
    /\ snippets_file = load_snippets(file, r, w).file
    /\ snip_message = None
    /\ snip_ops = 0
    /\ snip_call = None

\* SnippetManager.__init__ for every snippets.json the program may find.
SnippetInit ==
    \E file \in {None, Some(NotJsonSnippets), Some(UserSnippets)},
       r \in ReadOutcomes, w \in WriteOutcomes :
        SnippetManager__init__(file, r, w)

\* The first start of the program: no snippets.json yet, the defaults saved.
SnippetFirstStart == SnippetManager__init__(None, "ok", "ok")

\* SnippetManager.add_snippet: the list and the file afterwards; the value
\* save_snippets returns is dropped.
add_snippet(name, prefix, body, w) ==
    LET list == Append(snippets, [name |-> name, prefix |-> prefix, body |-> body]) IN
    [snippets |-> list, file |-> save_snippets(list, snippets_file, w).file,
     call |-> <<"add_snippet", Len(snippets)>>]

\* SnippetManager.update_snippet (index counted from 0)
update_snippet(index, name, prefix, body, w) ==
    IF 0 <= index /\ index < Len(snippets)
    THEN LET list == [snippets EXCEPT ![index + 1] =
                         [name |-> name, prefix |-> prefix, body |-> body]] IN
         [snippets |-> list, file |-> save_snippets(list, snippets_file, w).file,
          call |-> <<"update_snippet", index>>]
    ELSE [snippets |-> snippets, file |-> snippets_file,
          call |-> <<"update_snippet", index>>]

\* list.pop(index)
pop(list, index) == SubSeq(list, 1, index) \o SubSeq(list, index + 2, Len(list))

\* SnippetManager.delete_snippet (index counted from 0)
delete_snippet(index, w) ==
    IF 0 <= index /\ index < Len(snippets)
    THEN LET list == pop(snippets, index) IN
         [snippets |-> list, file |-> save_snippets(list, snippets_file, w).file,
          call |-> <<"delete_snippet", index>>]
    ELSE [snippets |-> snippets, file |-> snippets_file,
          call |-> <<"delete_snippet", index>>]

\* What a SnippetDialog handler leaves: the manager's state and its message.
snip_becomes(manager, message) ==
    /\ snippets' = manager.snippets
    /\ snippets_file' = manager.file
    /\ snip_message' = message
    /\ snip_ops' = snip_ops + 1
    /\ snip_call' = manager.call
    /\ UNCHANGED not_snip

\* A handler that returns before it calls the manager.
snip_unchanged == [snippets |-> snippets, file |-> snippets_file, call |-> None]

\* SnippetDialog.add_snippet (the Add button)
SnippetDialog_add_snippet ==
    /\ snip_ops < MaxSnippetOps
    /\ \E name \in SnippetNames, prefix \in SnippetPrefixes, body \in SnippetBodies,
          w \in WriteOutcomes :
        IF name = "" \/ prefix = "" \/ body = ""
        THEN snip_becomes(snip_unchanged, warning("All fields are required"))
        ELSE snip_becomes(add_snippet(name, prefix, body, w),
                          information("Snippet added successfully"))

\* The rows of the dialog's list: one per snippet, counted from 0.
Rows == 0..(Len(snippets) - 1)

\* SnippetDialog.update_snippet (the Update button); selected is the list's
\* current row, None when there is none.
SnippetDialog_update_snippet ==
    /\ snip_ops < MaxSnippetOps
    /\ \E selected \in {None} \cup {Some(r) : r \in Rows},
          name \in SnippetNames, prefix \in SnippetPrefixes, body \in SnippetBodies,
          w \in WriteOutcomes :
        IF selected = None
        THEN snip_becomes(snip_unchanged, warning("No snippet selected"))
        ELSE IF name = "" \/ prefix = "" \/ body = ""
        THEN snip_becomes(snip_unchanged, warning("All fields are required"))
        ELSE snip_becomes(update_snippet(selected[1], name, prefix, body, w),
                          information("Snippet updated successfully"))

\* SnippetDialog.delete_snippet (the Delete button); answer is the button
\* pressed in the confirmation box.
SnippetDialog_delete_snippet ==
    /\ snip_ops < MaxSnippetOps
    /\ \E selected \in {None} \cup {Some(r) : r \in Rows}, answer \in {"Yes", "No"},
          w \in WriteOutcomes :
        IF selected = None
        THEN snip_becomes(snip_unchanged, warning("No snippet selected"))
        ELSE IF answer # "Yes"
        THEN snip_becomes(snip_unchanged, None)
        ELSE snip_becomes(delete_snippet(selected[1], w),
                          information("Snippet deleted successfully"))

SnippetNext ==
    \/ SnippetDialog_add_snippet
    \/ SnippetDialog_update_snippet
    \/ SnippetDialog_delete_snippet

(***************************************************************************)
(* ui/snippets.py: the manager's methods called directly, every write of   *)
(* snippets.json succeeding.                                               *)
(***************************************************************************)
\* SnippetManager.__init__ for every snippets.json it may find, read or not,
\* its own write of the defaults succeeding.
SnippetStoreInit ==
    \E file \in {None, Some(NotJsonSnippets), Some(UserSnippets)}, r \in ReadOutcomes :
        SnippetManager__init__(file, r, "ok")

\* The snippets a caller hands over, and the indices: every position of the
\* list, one below and one above.
SnippetRecords ==
    {r \in [name : SnippetNames, prefix : SnippetPrefixes, body : SnippetBodies] :
        r.name # "" /\ r.body # ""}
Indices == -1..Len(snippets)

call_add_snippet ==
    /\ snip_ops < MaxSnippetOps
    /\ \E r \in SnippetRecords :
        snip_becomes(add_snippet(r.name, r.prefix, r.body, "ok"), None)

call_update_snippet ==
    /\ snip_ops < MaxSnippetOps
    /\ \E index \in Indices, r \in SnippetRecords :
        snip_becomes(update_snippet(index, r.name, r.prefix, r.body, "ok"), None)

call_delete_snippet ==
    /\ snip_ops < MaxSnippetOps
    /\ \E index \in Indices :
        snip_becomes(delete_snippet(index, "ok"), None)

SnippetStoreNext ==
    \/ call_add_snippet
    \/ call_update_snippet
    \/ call_delete_snippet

(***************************************************************************)
(* Claims about the snippet manager.                                       *)
(***************************************************************************)
\* snippets.json holds exactly the manager's list.
persisted ==
    /\ snippets_file # None
    /\ snippets_file[1].ok
    /\ json_load_snippets(snippets_file[1].data) = snippets

\* C10: a SnippetDialog handler reports success only when the change it made
\* is in snippets.json.
C10_SuccessMeansPersisted ==
    (snip_message # None /\ snip_message[1].kind = "information") => persisted

\* What a SnippetManager constructed now, and reading snippets.json, would
\* hold.
reloaded == load_snippets(snippets_file, "ok", "ok").snippets

\* The step was update_snippet or delete_snippet with an index outside
\* 0..len-1 of the list it was called on.
out_of_range_call ==
    /\ snip_call' # None
    /\ snip_call'[1] \in {"update_snippet", "delete_snippet"}
    /\ ~(0 <= snip_call'[2] /\ snip_call'[2] < Len(snippets))

\* C11: as long as every write of snippets.json succeeds, a SnippetManager
\* constructed after any sequence of add_snippet, update_snippet and
\* delete_snippet loads exactly the first manager's list, same records in
\* the same order; update_snippet and delete_snippet with an index outside
\* 0..len-1 change neither the list nor the file.
C11_RoundTrip ==
    /\ [](reloaded = snippets)
    /\ [][out_of_range_call => UNCHANGED <<snippets, snippets_file>>]_vars

\* get_snippet_by_prefix(prefix): the first snippet with that prefix, or None
get_snippet_by_prefix(prefix) ==
    IF \E i \in 1..Len(snippets) : snippets[i].prefix = prefix
    THEN Some(snippets[CHOOSE i \in 1..Len(snippets) :
                          /\ snippets[i].prefix = prefix
                          /\ \A j \in 1..(i - 1) : snippets[j].prefix # prefix])
    ELSE None

\* C12: no two snippets of the manager have the same prefix, so every
\* snippet is the one get_snippet_by_prefix returns for its prefix.
C12_PrefixIsKey ==
    /\ \A i, j \in 1..Len(snippets) : snippets[i].prefix = snippets[j].prefix => i = j
    /\ \A i \in 1..Len(snippets) : get_snippet_by_prefix(snippets[i].prefix) = Some(snippets[i])

(***************************************************************************)
(* ui/gitintegration.py                                                    *)
(***************************************************************************)
\* The directories handed over as repositories: one that exists, one that
\* does not; "" is what a cancelled directory dialog returns.
RepoPaths == {"", "/repo", "/gone"}

\* What a subprocess wrote to a pipe, as bytes: nothing, a line ending in
\* CR LF, and a byte that is not valid in the locale's encoding.
PipeBytes == {"", "ok\r\n", "\\xff"}
ExitCodes == {0, 128}

\* text=True: each pipe is decoded with the locale's encoding (strict) and
\* universal newlines; None when decoding raises UnicodeDecodeError.
decode(bytes) ==
    CASE bytes = "\\xff" -> None
      [] bytes = "ok\r\n" -> Some("ok\n")
      [] OTHER -> Some(bytes)

\* What the operating system and the child process do with one
\* subprocess.run: whether the child starts at all, its exit code and what
\* it writes.  A child cannot be started in a directory that does not exist.
Subprocesses(cwd) ==
    {p \in [starts : BOOLEAN, returncode : ExitCodes, stdout : PipeBytes, stderr : PipeBytes] :
        cwd = "/gone" => ~p.starts}

\* not x, for an optional path
not(x) == x = None \/ x[1] = ""

\* GitManager.__init__
GitInit ==
    /\ current_repo = None
    /\ git_call = None
    /\ git_result = None

\* A call that returned (returncode, output); returncode None is Python's None.
git_returned(returncode, output, started) ==
    [raised |-> FALSE, returncode |-> returncode, output |-> output, started |-> started]

\* A call that an exception left.
git_raised(text, started) ==
    [raised |-> TRUE, returncode |-> None, output |-> text, started |-> started]

\* subprocess.run(command, cwd=repo_path, shell=True, capture_output=True,
\* text=True) when the system does p: the CompletedProcess, or the exception.
subprocess_run(p) ==
    IF ~p.starts THEN [exc |-> Some("[Errno 2] No such file or directory"),
                       returncode |-> 0, stdout |-> "", stderr |-> ""]
    ELSE IF decode(p.stdout) = None \/ decode(p.stderr) = None
      THEN [exc |-> Some("'utf-8' codec can't decode byte 0xff"),
            returncode |-> 0, stdout |-> "", stderr |-> ""]
    ELSE [exc |-> None, returncode |-> p.returncode,
          stdout |-> decode(p.stdout)[1], stderr |-> decode(p.stderr)[1]]

\* A plausible slip: only OSError is caught, as if nothing but starting the
\* child could fail.
run_git_command_catches_OSError(repo_path, p) ==
    LET path == IF not(repo_path) THEN current_repo ELSE repo_path
        result == subprocess_run(p)
    IN
    IF not(path) THEN git_returned(None, "No repository selected", FALSE)
    ELSE IF result.exc = None
      THEN git_returned(Some(result.returncode), result.stdout \o result.stderr, TRUE)
    ELSE IF ~p.starts THEN git_returned(Some(1), result.exc[1], FALSE)
    ELSE git_raised(result.exc[1], TRUE)

\* GitManager.run_git_command(command, repo_path) when the system does p
run_git_command(repo_path, p) ==
    LET path == IF not(repo_path) THEN current_repo ELSE repo_path
        result == subprocess_run(p)
    IN
    IF not(path) THEN git_returned(None, "No repository selected", FALSE)
    ELSE IF result.exc = None
      THEN git_returned(Some(result.returncode), result.stdout \o result.stderr, TRUE)
    ELSE git_returned(Some(1), result.exc[1], p.starts)

\* GitManager.set_current_repo(repo_path)
set_current_repo ==
    /\ \E repo_path \in RepoPaths : current_repo' = Some(repo_path)
    /\ UNCHANGED <<git_call, git_result>>
    /\ UNCHANGED not_git

\* The directory subprocess.run is given by a call with this repo_path.
cwd_of(repo_path) == IF not(repo_path) THEN current_repo ELSE repo_path

\* One call of run_git_command (through git_status, git_add, ...) with or
\* without a repo_path.
do_run_git_command ==
    /\ \E repo_path \in {None} \cup {Some(r) : r \in RepoPaths} :
       \E p \in Subprocesses(IF not(cwd_of(repo_path)) THEN "" ELSE cwd_of(repo_path)[1]) :
        /\ git_call' = Some([repo_path |-> repo_path, current_repo |-> current_repo,
                             subprocess |-> p])
        /\ git_result' = Some(run_git_command(repo_path, p))
    /\ UNCHANGED current_repo
    /\ UNCHANGED not_git

GitNext ==
    \/ set_current_repo
    \/ do_run_git_command

(***************************************************************************)
(* Claims about the Git manager.                                           *)
(***************************************************************************)
\* The last call had no repository: no repo_path and no current repository.
no_repository == not(git_call[1].repo_path) /\ not(git_call[1].current_repo)

\* The text the child's two pipes decode to, stdout first (decodable pipes).
outputs(p) == decode(p.stdout)[1] \o decode(p.stderr)[1]

decodable(p) == decode(p.stdout) # None /\ decode(p.stderr) # None

\* C14 (as claimed): run_git_command never raises; without a repository it
\* returns (None, "No repository selected") and starts no subprocess; when
\* starting the subprocess raises it returns (1, exception text); in every
\* other case it returns the child's exit code with its stdout followed by
\* its stderr.
C14_ExitCodeUnlessStartFails ==
    git_call # None =>
        LET p == git_call[1].subprocess
            r == git_result[1]
        IN
        /\ ~r.raised
        /\ no_repository =>
             r.returncode = None /\ r.output = "No repository selected" /\ ~r.started
        /\ (~no_repository /\ ~p.starts) => r.returncode = Some(1) /\ r.output # ""
        /\ (~no_repository /\ p.starts) => r.returncode = Some(p.returncode)

\* C14 (amended): run_git_command never raises; without a repository it
\* returns (None, "No repository selected") and starts no subprocess; when
\* subprocess.run raises, while starting the child or while decoding what it
\* wrote, it returns (1, exception text); in every other case it returns the
\* child's exit code with its decoded stdout followed by its decoded stderr.
C14_ExitCodeUnlessRunRaises ==
    git_call # None =>
        LET p == git_call[1].subprocess
            r == git_result[1]
        IN
        /\ ~r.raised
        /\ no_repository =>
             r.returncode = None /\ r.output = "No repository selected" /\ ~r.started
        /\ (~no_repository /\ (~p.starts \/ ~decodable(p))) =>
             /\ r.returncode = Some(1)
             /\ r.output = subprocess_run(p).exc[1]
        /\ (~no_repository /\ p.starts /\ decodable(p)) =>
             /\ r.returncode = Some(p.returncode)
             /\ r.output = outputs(p)

\* C14's case: a child that ran in the current repository and ended with
\* exit code 0 wrote a byte that cannot be decoded, and the call returned 1
\* with the decoder's message.
C14_Witness ==
    /\ git_call # None
    /\ git_call[1].repo_path = None
    /\ git_call[1].current_repo = Some("/repo")
    /\ git_call[1].subprocess.starts
    /\ git_call[1].subprocess.returncode = 0
    /\ git_call[1].subprocess.stdout = "\\xff"
    /\ git_result[1].returncode = Some(1)
    /\ ~git_result[1].raised

(***************************************************************************)
(* ui/mainwindow.py: tabs, current_file and saving                         *)
(***************************************************************************)
\* The files a user opens and saves, and what they hold at the start.
FilePaths == {"/a.py", "/b.txt"}
TypedText == "ty"

\* text[:n] for every n: the prefixes of the texts an editor can hold, which
\* are TypedText, its prefixes and the one-character texts of the files.
prefixes(text) ==
    CASE text = TypedText -> {"", "t", TypedText}
      [] text = "" -> {""}
      [] OTHER -> {"", text}

\* A tab's editor: its text, and the file the tab was opened from or last
\* saved as (None for an Untitled tab).  The program keeps no such record
\* per tab; it is kept here to state what a save should write to.
editor_of(file, text) == [file |-> file, text |-> text]

\* MainWindow.__init__: current_file = None, editors = [], then init_ui,
\* which creates the tab widget and calls new_file().
MainWindowInit ==
    /\ tab_widget = <<editor_of(None, "")>>
    /\ current_index = 1
    /\ current_file = None
    /\ file_system = [f \in FilePaths |-> IF f = "/a.py" THEN Some("A") ELSE Some("B")]
    /\ mw_call = ""
    /\ mw_wrote = None
    /\ mw_started = None
    /\ mw_box = None

\* tab_widget.currentWidget(): None without a tab
currentWidget == IF current_index = 0 THEN None ELSE Some(tab_widget[current_index])

\* MainWindow.new_file
new_file ==
    /\ mw_box = None
    /\ Len(tab_widget) < MaxTabs
    /\ tab_widget' = Append(tab_widget, editor_of(None, ""))
    /\ current_index' = Len(tab_widget) + 1
    /\ current_file' = None
    /\ mw_call' = "new_file"
    /\ mw_started' = None
    /\ mw_wrote' = None
    /\ UNCHANGED file_system
    /\ UNCHANGED mw_box
    /\ UNCHANGED not_mw

\* The body shared by open_file and on_file_double_clicked once a path is
\* known: read the file, add a tab for it, select it, set current_file; a
\* failing read shows a warning and changes nothing.
open_path(file_path, read_ok) ==
    IF read_ok /\ file_system[file_path] # None
    THEN /\ tab_widget' = Append(tab_widget, editor_of(Some(file_path), file_system[file_path][1]))
         /\ current_index' = Len(tab_widget) + 1
         /\ current_file' = Some(file_path)
    ELSE UNCHANGED <<tab_widget, current_index, current_file>>

\* MainWindow.open_file; choice is the file dialog's path, None if cancelled.
open_file ==
    /\ mw_box = None
    /\ Len(tab_widget) < MaxTabs
    /\ \E choice \in {None} \cup {Some(f) : f \in FilePaths}, read_ok \in BOOLEAN :
        IF choice = None
        THEN UNCHANGED <<tab_widget, current_index, current_file>>
        ELSE open_path(choice[1], read_ok)
    /\ mw_call' = "open_file"
    /\ mw_started' = None
    /\ mw_wrote' = None
    /\ UNCHANGED file_system
    /\ UNCHANGED mw_box
    /\ UNCHANGED not_mw

\* MainWindow.on_file_double_clicked on a file of the file browser
on_file_double_clicked ==
    /\ mw_box = None
    /\ Len(tab_widget) < MaxTabs
    /\ \E file_path \in FilePaths, read_ok \in BOOLEAN : open_path(file_path, read_ok)
    /\ mw_call' = "on_file_double_clicked"
    /\ mw_started' = None
    /\ mw_wrote' = None
    /\ UNCHANGED file_system
    /\ UNCHANGED mw_box
    /\ UNCHANGED not_mw

\* The user clicks another tab: QTabWidget selects it.  MainWindow connects
\* nothing to currentChanged.
switch_tab ==
    /\ mw_box = None
    /\ \E index \in 1..Len(tab_widget) :
        /\ index # current_index
        /\ current_index' = index
    /\ mw_call' = "switch_tab"
    /\ mw_started' = None
    /\ mw_wrote' = None
    /\ UNCHANGED <<tab_widget, current_file, file_system>>
    /\ UNCHANGED mw_box
    /\ UNCHANGED not_mw

\* The user types into the selected tab's editor.
type_text ==
    /\ mw_box = None
    /\ current_index # 0
    /\ tab_widget[current_index].text # TypedText
    /\ tab_widget' = [tab_widget EXCEPT ![current_index].text = TypedText]
    /\ mw_call' = "type_text"
    /\ mw_started' = None
    /\ mw_wrote' = None
    /\ UNCHANGED <<current_index, current_file, file_system>>
    /\ UNCHANGED mw_box
    /\ UNCHANGED not_mw

\* QTabWidget.removeTab(index): the current index afterwards.  Removing the
\* selected tab selects the one to its right, or the last one left.
index_after_removeTab(index) ==
    IF Len(tab_widget) = 1 THEN 0
    ELSE IF index < current_index THEN current_index - 1
    ELSE IF index = current_index /\ index = Len(tab_widget) THEN index - 1
    ELSE current_index

\* MainWindow.close_tab(index) (tabCloseRequested)
close_tab ==
    /\ mw_box = None
    /\ \E index \in 1..Len(tab_widget) :
        /\ tab_widget' = pop(tab_widget, index - 1)
        /\ current_index' = index_after_removeTab(index)
    /\ mw_call' = "close_tab"
    /\ mw_started' = None
    /\ mw_wrote' = None
    /\ UNCHANGED <<current_file, file_system>>
    /\ UNCHANGED mw_box
    /\ UNCHANGED not_mw

\* with open(path, 'w') as f: f.write(editor.toPlainText()) inside the try of
\* save_file and save_as_file: whether it goes through.  currentWidget() is
\* None without a tab, and toPlainText on it raises before the file is
\* opened (caught, warning shown).
can_save(outcome) == currentWidget # None /\ outcome.kind = "ok"

\* How the write of the selected editor's text can end (WriteOutcomes), with
\* what a failed write has left in the file.
SaveOutcomes ==
    {[kind |-> k, left |-> ""] : k \in {"ok", "open_fails"}}
    \cup {[kind |-> "write_fails", left |-> p] :
            p \in IF currentWidget = None THEN {""} ELSE prefixes(currentWidget[1].text)}

\* The files after the try block of save_file and save_as_file for `path`.
saved_to(path, outcome) ==
    IF currentWidget = None THEN file_system
    ELSE [file_system EXCEPT ![path] = file_after(@, currentWidget[1].text, outcome)]

\* MainWindow.save_as_file; choice is the file dialog's path.
save_as_file(choice, outcome) ==
    IF choice # None /\ can_save(outcome)
    THEN /\ file_system' = saved_to(choice[1], outcome)
         /\ mw_wrote' = Some(<<choice[1], currentWidget[1].text>>)
         /\ current_file' = choice
         /\ tab_widget' = [tab_widget EXCEPT ![current_index].file = choice]
    ELSE /\ mw_wrote' = None
         /\ file_system' = IF choice = None THEN file_system ELSE saved_to(choice[1], outcome)
         /\ UNCHANGED <<current_file, tab_widget>>

\* File > Save As
do_save_as_file ==
    /\ mw_box = None
    /\ \E choice \in {None} \cup {Some(f) : f \in FilePaths}, outcome \in SaveOutcomes :
        save_as_file(choice, outcome)
    /\ mw_call' = "save_as_file"
    /\ mw_started' = None
    /\ UNCHANGED current_index
    /\ UNCHANGED mw_box
    /\ UNCHANGED not_mw

\* MainWindow.save_file
save_file ==
    /\ mw_box = None
    /\ \E choice \in {None} \cup {Some(f) : f \in FilePaths}, outcome \in SaveOutcomes :
        IF current_file # None
        THEN /\ file_system' = saved_to(current_file[1], outcome)
             /\ mw_wrote' = IF can_save(outcome)
                             THEN Some(<<current_file[1], currentWidget[1].text>>)
                             ELSE None
             /\ UNCHANGED <<current_file, tab_widget>>
        ELSE save_as_file(choice, outcome)
    /\ mw_call' = "save_file"
    /\ mw_started' = None
    /\ UNCHANGED current_index
    /\ UNCHANGED mw_box
    /\ UNCHANGED not_mw

\* str.endswith('.py') on the paths of FilePaths
endswith_py(path) == path \in {"/a.py"}

\* self.save_file() as the three handlers below call it, current_file being
\* set: the selected editor's text is written to current_file; a failure is
\* caught inside save_file, which shows a warning and returns.
save_current_file(outcome) ==
    /\ file_system' = saved_to(current_file[1], outcome)
    /\ mw_wrote' = IF can_save(outcome)
                    THEN Some(<<current_file[1], currentWidget[1].text>>)
                    ELSE None

\* The two early returns shared by run_file, run_in_terminal and debug_file
\* (a warning is shown).
refused == current_file = None \/ ~endswith_py(current_file[1])

\* save_file() returns to the three handlers below only when the message
\* box it ends with ("File saved successfully" or "Failed to save file") is
\* closed.  While the box is open the window takes no input, but what is
\* queued for the UI thread (the shell's signals, the debugger thread's) is
\* delivered.

\* MainWindow.run_file up to save_file()'s message box.
run_file ==
    /\ mw_box = None
    /\ \E outcome \in SaveOutcomes :
        IF refused
        THEN /\ mw_wrote' = None
             /\ UNCHANGED <<file_system, mw_box>>
        ELSE /\ save_current_file(outcome)
             /\ mw_box' = Some("run_file")
    /\ mw_started' = None
    /\ mw_call' = "run_file"
    /\ UNCHANGED <<tab_widget, current_index, current_file>>
    /\ UNCHANGED not_mw

\* run_file, the box closed: RunDialog's QProcess.start('python', [file_path])
run_file_start ==
    /\ mw_box = Some("run_file")
    /\ mw_started' = Some(<<"QProcess.start", current_file[1]>>)
    /\ mw_box' = None
    /\ UNCHANGED <<tab_widget, current_index, current_file, file_system, mw_call, mw_wrote>>
    /\ UNCHANGED not_mw

\* MainWindow.run_in_terminal up to save_file()'s message box.
run_in_terminal ==
    /\ mw_box = None
    /\ terminal = "built"
    /\ Len(term_output) < Len(start_shell.output) + MaxCommands
    /\ \E outcome \in SaveOutcomes :
        IF refused
        THEN /\ mw_wrote' = None
             /\ UNCHANGED <<file_system, mw_box>>
        ELSE /\ save_current_file(outcome)
             /\ mw_box' = Some("run_in_terminal")
    /\ mw_started' = None
    /\ mw_call' = "run_in_terminal"
    /\ UNCHANGED <<tab_widget, current_index, current_file>>
    /\ UNCHANGED not_mw

\* run_in_terminal, the box closed: the command is put into the terminal's
\* input line and Terminal.execute_command is called.
run_in_terminal_start ==
    /\ mw_box = Some("run_in_terminal")
    /\ LET command == "python \"" \o current_file[1] \o "\"" IN
        /\ term_output' = Append(term_output, "> " \o command)
        /\ shell_stdin' =
             IF term_process # "None" /\ qprocess_state = "Running"
             THEN Append(shell_stdin, command \o "\n")
             ELSE shell_stdin
        /\ input_line' = ""
        /\ mw_started' = Some(<<"Terminal.execute_command", command>>)
    /\ mw_box' = None
    /\ UNCHANGED <<tab_widget, current_index, current_file, file_system, mw_call, mw_wrote>>
    /\ UNCHANGED <<terminal, term_process, qprocess_state, shell_unread, input_enabled>>
    /\ UNCHANGED <<dbg_vars, proj_vars, snip_vars, git_vars, ed_vars, rp_vars>>

\* MainWindow.debug_file up to save_file()'s message box.
debug_file ==
    /\ mw_box = None
    /\ \E outcome \in SaveOutcomes :
        IF refused
        THEN /\ mw_wrote' = None
             /\ UNCHANGED <<file_system, mw_box>>
        ELSE /\ save_current_file(outcome)
             /\ mw_box' = Some("debug_file")
    /\ mw_started' = None
    /\ mw_call' = "debug_file"
    /\ UNCHANGED <<tab_widget, current_index, current_file>>
    /\ UNCHANGED not_mw

\* debug_file, the box closed: DebuggerDialog(self.current_file, self).  Its
\* constructor calls init_ui, which builds output_area and then names
\* QWidget (ui/debugger.py line 169), a name the module does not import:
\* NameError leaves the constructor and debug_file.  No dialog comes to
\* exist, start_debugging and exec_ are not reached, no thread is made.
debug_file_start ==
    /\ mw_box = Some("debug_file")
    /\ dbg_exc' = Some("NameError")
    /\ mw_started' = None
    /\ mw_box' = None
    /\ UNCHANGED <<tab_widget, current_index, current_file, file_system, mw_call, mw_wrote>>
    /\ UNCHANGED <<debugger_thread, thread_file_path, flags, pc, cmd, rl_entry, output_buffer,
                   out_queue, signals, paused_at, run_exc>>
    /\ UNCHANGED hist_vars
    /\ UNCHANGED <<term_vars, proj_vars, snip_vars, git_vars, ed_vars, rp_vars>>

MainWindowNext ==
    \/ new_file
    \/ open_file
    \/ on_file_double_clicked
    \/ switch_tab
    \/ type_text
    \/ close_tab
    \/ do_save_as_file
    \/ save_file

\* The Run and Debug menus, with what decides the tab, the text and the file
\* a launch meets (File > Open, typing, selecting and closing tabs) and the
\* terminal MainWindow.init_ui built, whose shell comes up and ends when it
\* does.
LaunchNext ==
    \/ open_file
    \/ switch_tab
    \/ type_text
    \/ close_tab
    \/ shell_started
    \/ shell_finished
    \/ run_file
    \/ run_file_start
    \/ run_in_terminal
    \/ run_in_terminal_start
    \/ debug_file
    \/ debug_file_start

(***************************************************************************)
(* Claims about the main window.                                           *)
(***************************************************************************)
\* C16: whatever save_file writes is the text of the selected tab, and it is
\* written to the file that tab was opened from or last saved as.
C16_SavesSelectedTab ==
    (mw_call = "save_file" /\ mw_wrote # None) =>
        /\ currentWidget # None
        /\ mw_wrote[1][2] = currentWidget[1].text
        /\ currentWidget[1].file = Some(mw_wrote[1][1])

\* C26: run_file, run_in_terminal and debug_file write nothing and start
\* nothing when there is no current file or its name does not end in '.py';
\* otherwise whatever they start is started with the selected editor's text
\* written to the current file.
C26_StartsOnlyAfterSaving ==
    mw_call \in {"run_file", "run_in_terminal", "debug_file"} =>
        /\ refused => mw_wrote = None /\ mw_started = None
        /\ mw_started # None =>
              /\ currentWidget # None
              /\ mw_wrote = Some(<<current_file[1], currentWidget[1].text>>)

(***************************************************************************)
(* editor/editor.py: folding                                               *)
(***************************************************************************)
\* The lines a document is made of: empty, blank, and code at three depths.
Lines == {<<>>, <<" ">>, <<"x">>, <<" ", "x">>, <<" ", " ", "x">>}

\* The documents: QTextDocument always holds at least one block.
Documents == UNION {[1..n -> Lines] : n \in 1..MaxBlocks}

\* str.lstrip()
RECURSIVE lstrip(_)
lstrip(text) == IF text # <<>> /\ Head(text) = " " THEN lstrip(Tail(text)) ELSE text

\* Block numbers run from 1; block.next() of the last block is invalid.
isValid(block) == block \in 1..Len(document)

\* CodeEditor.get_indent_level
get_indent_level(block) == Len(document[block]) - Len(lstrip(document[block]))

\* The while loops of toggle_fold: the block the scan started at next_block
\* stops on (Len(document) + 1 when it runs off the end).
RECURSIVE scan(_, _)
scan(level, next_block) ==
    IF isValid(next_block) /\ get_indent_level(next_block) > level
    THEN scan(level, next_block + 1)
    ELSE next_block

\* CodeEditor.can_fold
can_fold(block) ==
    IF ~isValid(block) THEN FALSE
    ELSE isValid(block + 1) /\ get_indent_level(block + 1) > get_indent_level(block)

\* A new CodeEditor: one empty block.
EditorInit ==
    /\ document = << <<>> >>
    /\ visible = <<TRUE>>
    /\ user_state = <<-1>>
    /\ fold_clicks = <<>>

\* A CodeEditor after a file was loaded or text typed: nothing folded yet.
EditorLoaded ==
    /\ document \in Documents
    /\ visible = [b \in 1..Len(document) |-> TRUE]
    /\ user_state = [b \in 1..Len(document) |-> -1]
    /\ fold_clicks = <<>>

\* A plausible slip: the scan written with >= instead of >, which takes the
\* header's siblings into the fold.
toggle_fold_takes_siblings(ed, block) ==
    IF ~isValid(block) THEN ed
    ELSE LET level == get_indent_level(block) - 1
             stop_at == scan(level, block + 1)
             children == (block + 1)..(stop_at - 1)
         IN IF ed.user_state[block] = 1
            THEN [user_state |-> [ed.user_state EXCEPT ![block] = 0],
                  visible |-> [b \in 1..Len(document) |->
                                  IF b \in children THEN TRUE ELSE ed.visible[b]]]
            ELSE [user_state |-> [ed.user_state EXCEPT ![block] = 1],
                  visible |-> [b \in 1..Len(document) |->
                                  IF b \in children THEN FALSE ELSE ed.visible[b]]]

\* A plausible slip: expanding shows the children but leaves the header
\* marked as collapsed.
toggle_fold_keeps_state(ed, block) ==
    IF ~isValid(block) THEN ed
    ELSE LET level == get_indent_level(block)
             stop_at == scan(level, block + 1)
             children == (block + 1)..(stop_at - 1)
         IN IF ed.user_state[block] = 1
            THEN [user_state |-> ed.user_state,
                  visible |-> [b \in 1..Len(document) |->
                                  IF b \in children THEN TRUE ELSE ed.visible[b]]]
            ELSE [user_state |-> [ed.user_state EXCEPT ![block] = 1],
                  visible |-> [b \in 1..Len(document) |->
                                  IF b \in children THEN FALSE ELSE ed.visible[b]]]

\* CodeEditor.toggle_fold(block) on ed = [visible, user_state]
toggle_fold(ed, block) ==
    IF ~isValid(block) THEN ed
    ELSE LET level == get_indent_level(block)
             stop_at == scan(level, block + 1)
             children == (block + 1)..(stop_at - 1)
         IN IF ed.user_state[block] = 1
            THEN [user_state |-> [ed.user_state EXCEPT ![block] = 0],
                  visible |-> [b \in 1..Len(document) |->
                                  IF b \in children THEN TRUE ELSE ed.visible[b]]]
            ELSE [user_state |-> [ed.user_state EXCEPT ![block] = 1],
                  visible |-> [b \in 1..Len(document) |->
                                  IF b \in children THEN FALSE ELSE ed.visible[b]]]

\* CodeEditor.toggle_fold(block) called on any block of the document, or on
\* an invalid block (block.next() of the last one), which it returns on.
toggle_fold_call ==
    /\ Len(fold_clicks) < MaxFoldClicks
    /\ \E block \in 1..(Len(document) + 1) :
        /\ LET ed == toggle_fold([visible |-> visible, user_state |-> user_state], block) IN
             /\ visible' = ed.visible
             /\ user_state' = ed.user_state
        /\ fold_clicks' = IF isValid(block) THEN Append(fold_clicks, block) ELSE fold_clicks
    /\ UNCHANGED document
    /\ UNCHANGED not_ed

FoldNext == toggle_fold_call

(***************************************************************************)
(* Claims about folding.                                                   *)
(***************************************************************************)
\* The number of leading whitespace characters of a block.
indent(block) == Cardinality({k \in 1..Len(document[block]) :
                                 \A j \in 1..k : document[block][j] = " "})

\* The fold range of a header: the maximal run of consecutive blocks
\* directly after it that are indented more than it is.
fold_range(header) ==
    {b \in (header + 1)..Len(document) :
        \A j \in (header + 1)..b : indent(j) > indent(header)}

\* The block the last toggle_fold call was given.
toggled == fold_clicks'[Len(fold_clicks')]

\* C23: a toggle_fold that collapses a block hides exactly the blocks of its
\* fold range; the first following block indented no more than the header (a
\* blank line included) and every later block keep their visibility, as
\* does the header.
C23_CollapseHidesRange ==
    [][(fold_clicks' # fold_clicks /\ user_state[toggled] # 1) =>
          /\ user_state'[toggled] = 1
          /\ \A b \in 1..Len(document) :
                visible'[b] = IF b \in fold_range(toggled) THEN FALSE ELSE visible[b]]_vars

\* C23's case: the first block was collapsed, which hid the more indented
\* second block, and the scan stopped at the empty third line.
C23_Witness ==
    /\ fold_clicks = <<1>>
    /\ Len(document) = 3 /\ document[3] = <<>>
    /\ fold_range(1) = {2}
    /\ visible = <<TRUE, FALSE, TRUE>>

\* C24: a block is hidden if and only if it lies in the fold range of a
\* block whose fold state is collapsed (userState == 1).
C24_HiddenIffInCollapsedRange ==
    \A b \in 1..Len(document) :
        ~visible[b] <=> \E header \in 1..Len(document) :
                            user_state[header] = 1 /\ b \in fold_range(header)

\* C25: from a document with every block visible and none collapsed, two
\* toggle_fold calls on the same block leave every block visible and that
\* block not collapsed.
C25_TwiceRestores ==
    (Len(fold_clicks) = 2 /\ fold_clicks[1] = fold_clicks[2]) =>
        /\ \A b \in 1..Len(document) : visible[b]
        /\ user_state[fold_clicks[1]] # 1

\* C25's case: a header with two blocks in its fold range was collapsed and
\* expanded again.
C25_Witness ==
    /\ fold_clicks = <<1, 1>>
    /\ fold_range(1) = {2, 3}
    /\ user_state[1] = 0

(***************************************************************************)
(* ui/mainwindow.py: ReplaceDialog                                         *)
(***************************************************************************)
\* Texts are sequences of characters here; "a" and "A" differ in case only.
ReplaceChars == {"a", "A"}
Contents == UNION {[1..n -> ReplaceChars] : n \in 0..MaxContentLen}
\* What the user can have typed into "Find what" and "Replace with".
FindTexts == {<<>>, <<"a">>}
Replacements == {<<>>, <<"b">>}

lower(c) == IF c = "A" THEN "a" ELSE c

\* Whether `text` stands at the start of `content`.
matches_at_start(content, text, ignore_case) ==
    /\ Len(content) >= Len(text)
    /\ \A i \in 1..Len(text) :
          IF ignore_case THEN lower(content[i]) = lower(text[i]) ELSE content[i] = text[i]

\* The left-to-right, non-overlapping substitution both str.replace and
\* re.sub perform; the empty text matches before every character and at the
\* end.
RECURSIVE substitute(_, _, _, _)
substitute(content, text, replacement, ignore_case) ==
    IF text = <<>>
    THEN IF content = <<>> THEN replacement
         ELSE replacement \o <<Head(content)>>
                \o substitute(Tail(content), text, replacement, ignore_case)
    ELSE IF content = <<>> THEN <<>>
    ELSE IF matches_at_start(content, text, ignore_case)
      THEN replacement \o substitute(SubSeq(content, Len(text) + 1, Len(content)),
                                     text, replacement, ignore_case)
    ELSE <<Head(content)>> \o substitute(Tail(content), text, replacement, ignore_case)

\* content.replace(text, replacement)
str_replace(content, text, replacement) == substitute(content, text, replacement, FALSE)

\* re.sub(re.escape(text), replacement, content, flags=re.IGNORECASE), for a
\* replacement without backslashes
re_sub(text, replacement, content) == substitute(content, text, replacement, TRUE)

\* A new editor: no text, nothing selected, the dialog not used yet.
ReplaceInit ==
    /\ editor_text = <<>>
    /\ selection = None
    /\ rp_call = None
    /\ rp_ops = 0

\* The dialog opened on an editor that holds some text.
ReplaceLoaded ==
    /\ editor_text \in Contents
    /\ selection = None
    /\ rp_call = None
    /\ rp_ops = 0

\* What a handler was given: the two inputs, the check box, and
\* editor.toPlainText() as the handler found it.
called(method, text, replacement, match_case) ==
    Some([method |-> method, text |-> text, replacement |-> replacement,
          match_case |-> match_case, content |-> editor_text])

\* The user selects part of the text in the editor.
select_text ==
    /\ \E first \in 1..Len(editor_text), last \in 1..Len(editor_text) :
        /\ first <= last
        /\ selection # Some(<<first, last>>)
        /\ selection' = Some(<<first, last>>)
    /\ UNCHANGED <<editor_text, rp_call, rp_ops>>
    /\ UNCHANGED not_rp

\* ReplaceDialog.find_next: returns at once for an empty text; otherwise it
\* calls cursor.find on a QTextCursor, which has no such method, so the
\* handler ends there.  Either way the text and the selection stay.
find_next ==
    /\ rp_ops < MaxReplaceOps
    /\ \E text \in FindTexts, match_case \in BOOLEAN :
        rp_call' = called("find_next", text, <<>>, match_case)
    /\ rp_ops' = rp_ops + 1
    /\ UNCHANGED <<editor_text, selection>>
    /\ UNCHANGED not_rp

\* ReplaceDialog.replace: the selection is replaced, then find_next.
replace ==
    /\ rp_ops < MaxReplaceOps
    /\ \E text \in FindTexts, replacement \in Replacements, match_case \in BOOLEAN :
        /\ rp_call' = called("replace", text, replacement, match_case)
        /\ IF selection # None
           THEN /\ editor_text' = SubSeq(editor_text, 1, selection[1][1] - 1)
                                     \o replacement
                                     \o SubSeq(editor_text, selection[1][2] + 1,
                                               Len(editor_text))
                /\ selection' = None
           ELSE UNCHANGED <<editor_text, selection>>
    /\ rp_ops' = rp_ops + 1
    /\ UNCHANGED not_rp

\* ReplaceDialog.replace_all: the new content of the editor
replace_all(text, replacement, match_case) ==
    IF ~match_case THEN re_sub(text, replacement, editor_text)
    ELSE str_replace(editor_text, text, replacement)

\* The Replace All button; setPlainText drops the selection.
do_replace_all ==
    /\ rp_ops < MaxReplaceOps
    /\ \E text \in FindTexts, replacement \in Replacements, match_case \in BOOLEAN :
        /\ rp_call' = called("replace_all", text, replacement, match_case)
        /\ editor_text' = replace_all(text, replacement, match_case)
    /\ selection' = None
    /\ rp_ops' = rp_ops + 1
    /\ UNCHANGED not_rp

ReplaceNext ==
    \/ select_text
    \/ find_next
    \/ replace
    \/ do_replace_all

(***************************************************************************)
(* Claims about the ReplaceDialog.                                         *)
(***************************************************************************)
\* C30: Replace All with an empty "Find what" leaves the editor's text as it
\* found it, as Find Next does.
C30_EmptyFindChangesNothing ==
    (/\ rp_call # None
     /\ rp_call[1].method \in {"replace_all", "find_next"}
     /\ rp_call[1].text = <<>>)
    => editor_text = rp_call[1].content

(***************************************************************************)
(* Specifications.                                                         *)
(***************************************************************************)
\* The state after construction; the snippet manager as on a first start.
Init == DebuggerInit /\ recording = FALSE /\ TerminalInit /\ ProjectInit /\ GitInit
    /\ MainWindowInit /\ EditorInit /\ ReplaceInit
    /\ SnippetFirstStart

\* The same, for every snippets.json the program may find at its start.
InitSnippets == DebuggerInit /\ recording = FALSE /\ TerminalInit /\ ProjectInit /\ GitInit
    /\ MainWindowInit /\ EditorInit /\ ReplaceInit
    /\ SnippetInit

\* DebuggerThread and CustomDebugger constructed and called directly.
SpecDebugger == Init /\ [][DebuggerNext]_vars

SpecDebuggerSeq == Init /\ [][DebuggerSeqNext]_vars

\* The same with the thread scheduled: run() is the body of a QThread, which
\* the operating system keeps running until it returns.
SpecRun == Init /\ [][DebuggerNext]_vars /\ WF_vars(RunSteps)

SpecWrite == Init /\ [][write_call]_vars

\* The same with the history of setter calls and returned commands kept.
InitIntents == DebuggerInit /\ recording = TRUE /\ TerminalInit /\ ProjectInit /\ GitInit
    /\ MainWindowInit /\ EditorInit /\ ReplaceInit
    /\ SnippetFirstStart

SpecIntents == InitIntents /\ [][DebuggerNext]_vars

SpecTerminal == Init /\ [][TerminalNext]_vars

SpecProject == Init /\ [][ProjectNext]_vars

SpecSnippets == InitSnippets /\ [][SnippetNext]_vars

SpecGit == Init /\ [][GitNext]_vars

SpecMainWindow == Init /\ [][MainWindowNext]_vars

\* The main window constructed, its terminal included.
InitLaunch == DebuggerInit /\ recording = FALSE
    /\ TerminalBuilt /\ ProjectInit /\ GitInit
    /\ MainWindowInit /\ EditorInit /\ ReplaceInit
    /\ SnippetFirstStart

SpecLaunch == InitLaunch /\ [][LaunchNext]_vars

\* Folding in an editor that holds any of the documents.
InitFold == DebuggerInit /\ recording = FALSE /\ TerminalInit /\ ProjectInit /\ GitInit
    /\ MainWindowInit /\ EditorLoaded /\ ReplaceInit
    /\ SnippetFirstStart

SpecFold == InitFold /\ [][FoldNext]_vars

\* The ReplaceDialog on an editor that holds any of the contents.
InitReplace == DebuggerInit /\ recording = FALSE /\ TerminalInit /\ ProjectInit /\ GitInit
    /\ MainWindowInit /\ EditorInit /\ ReplaceLoaded /\ SnippetFirstStart

SpecReplace == InitReplace /\ [][ReplaceNext]_vars

\* The snippet manager's methods called directly, no write failing.
InitSnippetStore == DebuggerInit /\ recording = FALSE /\ TerminalInit /\ ProjectInit /\ GitInit
    /\ MainWindowInit /\ EditorInit /\ ReplaceInit
    /\ SnippetStoreInit

SpecSnippetStore == InitSnippetStore /\ [][SnippetStoreNext]_vars

=============================================================================
